---------------------------- MODULE Spec2Model ----------------------------
(***************************************************************************)
(* Model of the DownloadBook PDF handler: the Collection pipeline          *)
(* (src/src/collection.py), the table-of-contents paginator                *)
(* (src/src/downloadbook_pdf_handler/toc.py and the earlier revision       *)
(* src/src/toc.py) and the helpers of src/src/common.py.                   *)
(*                                                                         *)
(* The specifications share the variables:                                 *)
(*   SpecToc      generate_toc_pdf on its own, page by page, for both      *)
(*                revisions of the paginator;                              *)
(*   SpecLinks    replace_links_in_page on the pages of a small document;  *)
(*   Spec         Collection.create_pdf: registration of every fragment,   *)
(*                then concat_pages;                                       *)
(*   SpecRoman    Common.int_to_roman and the footing of the TOC pages;    *)
(*   SpecBook     populate_book (src/src/structure.py), line by line;      *)
(*   SpecDecorate ensure_resources, add_header and add_footer on a page;   *)
(*   SpecStream   the content streams Common.header, Common.footer and     *)
(*                PdfTocEntry.get_content write for a text.                *)
(* Python indices are kept 0-based (next_idx, start_idx); sequences are    *)
(* TLA+ sequences, so list[i] of the code is list[i + 1] here.             *)
(***************************************************************************)
EXTENDS Integers, Sequences, FiniteSets, TLC

VARIABLES
    pc,           \* position in the running operation
    rev,          \* which revision of toc.py paginates ("new" / "old")
    page_list,    \* Collection.page_list: TocOffset(title, level) records
    title_list,   \* Collection.title_list / TableOfContents.title_list
    output_list,  \* Collection.output_list: files, in registration order
    url_to_page,  \* Collection.url_to_page
    page_num,     \* Collection.page_num
    files,        \* contents of build_dir: file name -> rendered fragment
    rendered,     \* history: page count of every fragment rendered so far
    body_annots,  \* the /Annots the renderer puts on every page it renders
    pdf_writer,   \* pdf_writer.pages of concat_pages / TableOfContents.pdf.pages
    page_offset,  \* local page_offset of concat_pages
    concat_idx,   \* how many files of output_list concat_pages has consumed
    toc_pages,    \* the list toc_pages of generate_toc_pdf
    next_idx,     \* the local next_idx of generate_toc_pdf
    saved,        \* outcome of pdf_writer.save / value returned by create_pdf
    link_url_map, \* url_to_page as seen by replace_links_in_page (SpecLinks)
    link_orig,    \* SpecLinks: the pages before any rewrite pass
    link_pages,   \* SpecLinks: the pages now
    link_passes,  \* SpecLinks: rewrite passes run on each page
    roman_num,    \* Common.int_to_roman: the argument num
    roman_result, \* Common.int_to_roman: the string returned
    lines,        \* populate_book: raw_structure.strip().split("\n")
    line_idx,     \* populate_book: lines of lines[1:] the loop has consumed
    book,         \* populate_book: the Book ({} before it is built)
    current_chapter, \* populate_book: the Chapter being filled, {} for None
    current_section, \* populate_book: reference to a Section, 0 for None
    section_objs, \* the Section objects created so far, by reference
    raised_exc,   \* the exception that left populate_book ("" for none)
    dec_page,     \* the page ensure_resources / add_header / add_footer work on
    dec_orig,     \* that page before the first call
    dec_calls,    \* the calls made on it, in order
    stream_text,  \* the text handed to a function that writes a content stream
    stream_out    \* the content stream that function returned

vars == <<pc, rev, page_list, title_list, output_list, url_to_page, page_num,
          files, rendered, body_annots, pdf_writer, page_offset, concat_idx,
          toc_pages, next_idx, saved, link_url_map, link_orig, link_pages,
          link_passes, roman_num, roman_result, lines, line_idx, book,
          current_chapter, current_section, section_objs, raised_exc,
          dec_page, dec_orig, dec_calls, stream_text, stream_out>>

\* The variables of populate_book.
bookVars == <<lines, line_idx, book, current_chapter, current_section,
              section_objs, raised_exc>>

\* populate_book is not running.
BookIdle ==
    /\ lines = <<>>
    /\ line_idx = 0
    /\ book = {}
    /\ current_chapter = {}
    /\ current_section = 0
    /\ section_objs = <<>>
    /\ raised_exc = ""

\* The variables of the page decorators and of the content-stream writers.
unitVars == <<dec_page, dec_orig, dec_calls, stream_text, stream_out>>

\* No decorator and no content-stream writer is being exercised.
UnitIdle ==
    /\ dec_page = <<>>
    /\ dec_orig = <<>>
    /\ dec_calls = <<>>
    /\ stream_text = <<>>
    /\ stream_out = <<>>

\* The variables of the operations checked on their own, outside a Collection.
pureVars == <<roman_num, roman_result, bookVars, unitVars>>

\* None of those operations is running.
PureIdle ==
    /\ roman_num = 0
    /\ roman_result = <<>>
    /\ BookIdle
    /\ UnitIdle

(***************************************************************************)
(* Bounds of the model.                                                    *)
(***************************************************************************)
\* SpecToc: the TocEntry lists have 0..MaxEntries entries.
MaxEntries == 65
\* SpecLinks: a document of 1..MaxLinkPages pages carrying at most MaxAnnots
\* annotations in all, on which at most MaxPasses rewrite passes are run.
MaxLinkPages == 2
MaxAnnots == 2
MaxPasses == 2
\* Spec: books of 0..MaxFragments pages drawn from PageItems, rendered to at
\* most MaxBodyPages PDF pages in all (every fragment has at least one), and
\* one long book of MaxLong single-page fragments.
MaxFragments == 3
MaxBodyPages == 6
MaxLong == 32

\* SpecRoman: the largest argument of int_to_roman, and the entry lists whose
\* TOC pages are numbered (multiples of TocBatch, up to MaxTocBatches of them).
MaxRoman == 3999
TocBatch == 40
MaxTocBatches == 8

\* SpecBook: lines of a book-structure text after its first line.
MaxBookLines == 4
\* SpecDecorate: at most MaxDecorCalls calls are made on the page.
MaxDecorCalls == 3
\* SpecStream: the texts written have at most MaxTextLen characters.
MaxTextLen == 3

(***************************************************************************)
(* Program constants (src/src/common.py, toc.py).                          *)
(***************************************************************************)
LINE_HEIGHT == 20
HF_FONT_SIZE == 10
MARGIN == 72
PAGE_HEIGHT == 792
PAGE_WIDTH == 612
TOC_FONT_SIZE == 12
TOC_FONT_HEADER_SIZE == 18

Revisions == {"new", "old"}

(***************************************************************************)
(* Generic helpers.                                                        *)
(***************************************************************************)
RECURSIVE SumSeq(_)
SumSeq(s) == IF s = <<>> THEN 0 ELSE Head(s) + SumSeq(Tail(s))

RECURSIVE Flatten(_)
Flatten(ss) == IF ss = <<>> THEN <<>> ELSE Head(ss) \o Flatten(Tail(ss))

\* pikepdf PageList.__getitem__(i) for a Python index i: negative indices count
\* from the end, anything outside raises IndexError.
IndexError == [kind |-> "IndexError"]
PagesGet(pages, i) ==
    IF i >= 0 /\ i < Len(pages) THEN pages[i + 1]
    ELSE IF i < 0 /\ -i <= Len(pages) THEN pages[Len(pages) + i + 1]
    ELSE IndexError

(***************************************************************************)
(* Text.  A string is a sequence of characters.                            *)
(***************************************************************************)
Str_TableOfContents ==
    <<"T","a","b","l","e"," ","o","f"," ","C","o","n","t","e","n","t","s">>
Str_Untitled == <<"U","n","t","i","t","l","e","d">>
Str_Page == <<"P","a","g","e"," ">>

DigitChar(d) == <<"0","1","2","3","4","5","6","7","8","9">>[d + 1]

\* str(n) of a non-negative integer, as the f-strings format it.
RECURSIVE IntToStr(_)
IntToStr(n) ==
    IF n < 10 THEN <<DigitChar(n)>>
    ELSE IntToStr(n \div 10) \o <<DigitChar(n % 10)>>

\* Mutant: the map without the subtractive pairs.
RomanMap_additive ==
    << [value |-> 1000, numeral |-> <<"m">>],
       [value |-> 500,  numeral |-> <<"d">>],
       [value |-> 100,  numeral |-> <<"c">>],
       [value |-> 50,   numeral |-> <<"l">>],
       [value |-> 10,   numeral |-> <<"x">>],
       [value |-> 5,    numeral |-> <<"v">>],
       [value |-> 1,    numeral |-> <<"i">>] >>

\* Common.int_to_roman: roman_map and the greedy loop over it.
RomanMap ==
    << [value |-> 1000, numeral |-> <<"m">>],
       [value |-> 900,  numeral |-> <<"c","m">>],
       [value |-> 500,  numeral |-> <<"d">>],
       [value |-> 400,  numeral |-> <<"c","d">>],
       [value |-> 100,  numeral |-> <<"c">>],
       [value |-> 90,   numeral |-> <<"x","c">>],
       [value |-> 50,   numeral |-> <<"l">>],
       [value |-> 40,   numeral |-> <<"x","l">>],
       [value |-> 10,   numeral |-> <<"x">>],
       [value |-> 9,    numeral |-> <<"i","x">>],
       [value |-> 5,    numeral |-> <<"v">>],
       [value |-> 4,    numeral |-> <<"i","v">>],
       [value |-> 1,    numeral |-> <<"i">>] >>

RECURSIVE RomanLoop(_, _, _)
RomanLoop(num, k, result) ==
    IF k > Len(RomanMap) THEN result
    ELSE IF num >= RomanMap[k].value
         THEN RomanLoop(num - RomanMap[k].value, k, result \o RomanMap[k].numeral)
         ELSE RomanLoop(num, k + 1, result)

IntToRoman(num) == RomanLoop(num, 1, <<>>)

(***************************************************************************)
(* Content streams.  A stream is a block of operators drawing one text;    *)
(* the horizontal position of a footer depends on font metrics and is left *)
(* out.                                                                    *)
(***************************************************************************)
TextBlockOps == <<"q", "BT", "Tf", "Tm", "Tj", "ET", "Q">>

\* Common.header(text, font_size, font_sign)
Header(text, font_size, font_sign) ==
    [kind |-> "header", ops |-> TextBlockOps, font |-> font_sign,
     size |-> font_size, y |-> PAGE_HEIGHT - MARGIN + 2 * font_size,
     text |-> text]

\* Common.footer(text, font_size, font_sign)
Footer(text, font_size, font_sign) ==
    [kind |-> "footer", ops |-> TextBlockOps, font |-> font_sign,
     size |-> font_size, y |-> MARGIN - font_size, text |-> text]

\* The drawing instructions the renderer produced for a body page.
BodyContent ==
    [kind |-> "body", ops |-> <<>>, font |-> "", size |-> 0, y |-> 0,
     text |-> <<>>]

\* get_toc_title, and the text of the entries of a TOC page
TocTitleBlock ==
    [kind |-> "toc_title", ops |-> TextBlockOps, font |-> "/F1",
     size |-> TOC_FONT_HEADER_SIZE, y |-> PAGE_HEIGHT - MARGIN,
     text |-> Str_TableOfContents]

TocEntriesText ==
    [kind |-> "toc_entries", ops |-> TextBlockOps, font |-> "/F1",
     size |-> TOC_FONT_SIZE, y |-> 0, text |-> <<>>]

(***************************************************************************)
(* TocEntry and PdfTocEntry (toc.py).                                      *)
(***************************************************************************)
TocEntry(url, title, page, level) ==
    [url |-> url, title |-> title, page |-> page, level |-> level]

\* left margin of an entry's text: MARGIN * level in the new revision,
\* MARGIN in the old one.
LeftMargin(r, entry) == IF r = "new" THEN MARGIN * entry.level ELSE MARGIN

\* get_annot: a Link annotation with a GoTo action whose destination is the
\* page object pdf.pages[entry.page - 1] (held by reference: the page's id).
PageRef(id) == [kind |-> "ref", id |-> id]

GetAnnotDest(pages, entry) ==
    LET p == PagesGet(pages, entry.page - 1)
    IN IF p = IndexError THEN IndexError ELSE PageRef(p.id)

\* PdfTocEntry.__init__: content at (left margin, offset), annotation around it.
\* The horizontal extent of /Rect depends on font metrics and is left out.
PdfTocEntry(r, pages, entry, offset) ==
    [entry       |-> entry,
     offset      |-> offset,
     left_margin |-> LeftMargin(r, entry),
     rect_y      |-> <<offset - (LINE_HEIGHT \div 2), offset + (LINE_HEIGHT \div 2)>>,
     subtype     |-> "/Link",
     action      |-> "/GoTo",
     dest        |-> GetAnnotDest(pages, entry)]

(***************************************************************************)
(* TableOfContents.generate_single_toc_page.                               *)
(***************************************************************************)
\* Is the large title block (get_toc_title) drawn on the page?
HasTitleBlock(r, start_idx) == r = "new" /\ start_idx = 0

\* Is the running header "Table of Contents" (Common.header) drawn?
HasContinuationHeader(r, start_idx) == IF r = "new" THEN start_idx # 0 ELSE TRUE

\* Mutant: the first page's entries are not moved up by TOC_FONT_SIZE.
StartPosition_noraise(r, start_idx) ==
    IF r = "new"
    THEN PAGE_HEIGHT - MARGIN - 2 * TOC_FONT_HEADER_SIZE
    ELSE PAGE_HEIGHT - MARGIN * 2

\* The vertical position of the first entry of a page.
StartPosition(r, start_idx) ==
    IF r = "new"
    THEN (PAGE_HEIGHT - MARGIN - 2 * TOC_FONT_HEADER_SIZE)
         + (IF start_idx = 0 THEN TOC_FONT_SIZE ELSE 0)
    ELSE PAGE_HEIGHT - MARGIN * 2

\* Mutant: the page is closed only once the position has left the page.
BreakAtBottom_late(r, toc_position) == toc_position < 0

\* "Break at the bottom of the page": tested after the position was lowered.
BreakAtBottom(r, toc_position) ==
    IF r = "new"
    THEN toc_position < MARGIN + LINE_HEIGHT
    ELSE toc_position < MARGIN * 2

\* Mutant: the index is not advanced after an entry is placed.
AdvanceIdx_stuck(idx) == idx

\* Mutant: an entry is skipped after each one placed.
AdvanceIdx_skip(idx) == idx + 2

\* next_idx += 1
AdvanceIdx(idx) == idx + 1

\* toc_position -= Common.LINE_HEIGHT
LowerPosition(toc_position) == toc_position - LINE_HEIGHT

\* The while loop: place the entry, lower the position, advance, maybe break.
RECURSIVE TocEntryLoop(_, _, _, _, _, _)
TocEntryLoop(r, pages, tl, idx, toc_position, acc) ==
    IF idx < Len(tl)
    THEN LET toc_entry == PdfTocEntry(r, pages, tl[idx + 1], toc_position)
             acc2 == Append(acc, toc_entry)
             pos2 == LowerPosition(toc_position)
             idx2 == AdvanceIdx(idx)
         IN IF BreakAtBottom(r, pos2)
            THEN [entries |-> acc2, next_idx |-> idx2]
            ELSE TocEntryLoop(r, pages, tl, idx2, pos2, acc2)
    ELSE [entries |-> acc, next_idx |-> idx]

\* The page and next_idx the call returns; raised when pdf.pages[...] raised.
\* The loop runs once and its outcome is bound before the page is built.
GenerateSingleTocPage(r, pages, tl, start_idx) ==
    LET Returned(loop) ==
       [page |-> [kind        |-> "toc",
                  start_idx   |-> start_idx,
                  title_block |-> HasTitleBlock(r, start_idx),
                  cont_header |-> HasContinuationHeader(r, start_idx),
                  entries     |-> loop.entries,
                  contents    |-> <<TocEntriesText>>,
                  fonts       |-> ("/F1" :> (IF r = "new" THEN "Arial"
                                                 ELSE "Helvetica-Bold"))],
        next_idx |-> loop.next_idx,
        raised |-> \E i \in 1..Len(loop.entries) : loop.entries[i].dest = IndexError]
    IN CHOOSE res \in {Returned(loop) :
                          loop \in {TocEntryLoop(r, pages, tl, start_idx,
                                                 StartPosition(r, start_idx), <<>>)}} :
           TRUE

\* generate_toc_pdf as one call: the list of pages, or raised.
RECURSIVE GenerateTocLoop(_, _, _, _, _)
GenerateTocLoop(r, pages, tl, idx, acc) ==
    IF idx < Len(tl)
    THEN LET one == GenerateSingleTocPage(r, pages, tl, idx)
         IN IF one.raised THEN [pages |-> acc, raised |-> TRUE]
            ELSE GenerateTocLoop(r, pages, tl, one.next_idx, Append(acc, one.page))
    ELSE [pages |-> acc, raised |-> FALSE]

GenerateTocPdf(r, pages, tl) == GenerateTocLoop(r, pages, tl, 0, <<>>)

(***************************************************************************)
(* SpecToc: generate_toc_pdf, one generate_single_toc_page per step.       *)
(***************************************************************************)
\* A body page of the document the TOC points into.
BodyPage(id, frag, idx, annots) ==
    [kind |-> "body", id |-> id, frag |-> frag, idx |-> idx, annots |-> annots,
     contents |-> <<BodyContent>>, fonts |-> ("/F4" :> "Rendered")]

\* page["/Annots"]: absent, or an array of annotation dictionaries.
NoAnnots == [present |-> FALSE, items |-> <<>>]
Annots(items) == [present |-> TRUE, items |-> items]

\* The entry lists of SpecToc: entry k is titled k, starts on body page k and
\* alternates between the two nesting levels.
TocInputEntry(k) == TocEntry(k, k, k, 1 + (k % 2))

InitToc ==
    /\ PureIdle
    /\ pc = "toc"
    /\ rev \in Revisions
    /\ \E n \in 0..MaxEntries :
         /\ title_list = [k \in 1..n |-> TocInputEntry(k)]
         \* the document has a page for every entry, or lacks the last one
         /\ \E m \in {n, n - 1} :
              /\ m >= 0
              /\ pdf_writer = [k \in 1..m |-> BodyPage(k, k, 1, NoAnnots)]
    /\ toc_pages = <<>>
    /\ next_idx = 0
    /\ page_list = <<>>
    /\ output_list = <<>>
    /\ url_to_page = <<>>
    /\ page_num = 1
    /\ files = <<>>
    /\ rendered = <<>>
    /\ body_annots = NoAnnots
    /\ page_offset = 1
    /\ concat_idx = 0
    /\ saved = "none"
    /\ link_url_map = <<>>
    /\ link_orig = <<>>
    /\ link_pages = <<>>
    /\ link_passes = <<>>

\* Mutant: the loop body runs once before the condition is tested, as in a
\* do-while loop.
TocPageStep_dowhile ==
    /\ pc = "toc"
    /\ next_idx < Len(title_list) \/ toc_pages = <<>>
    /\ LET one == GenerateSingleTocPage(rev, pdf_writer, title_list, next_idx)
       IN IF one.raised
          THEN /\ pc' = "toc_raised"
               /\ UNCHANGED <<toc_pages, next_idx>>
          ELSE /\ toc_pages' = Append(toc_pages, one.page)
               /\ next_idx' = one.next_idx
               /\ pc' = "toc"
    /\ UNCHANGED <<pureVars, rev, page_list, title_list, output_list, url_to_page, page_num,
                   files, rendered, body_annots, pdf_writer, page_offset,
                   concat_idx, saved, link_url_map, link_orig, link_pages,
                   link_passes>>

\* One iteration of the loop of generate_toc_pdf.
TocPageStep ==
    /\ pc = "toc"
    /\ next_idx < Len(title_list)
    /\ LET one == GenerateSingleTocPage(rev, pdf_writer, title_list, next_idx)
       IN IF one.raised
          THEN /\ pc' = "toc_raised"
               /\ UNCHANGED <<toc_pages, next_idx>>
          ELSE /\ toc_pages' = Append(toc_pages, one.page)
               /\ next_idx' = one.next_idx
               /\ pc' = "toc"
    /\ UNCHANGED <<pureVars, rev, page_list, title_list, output_list, url_to_page, page_num,
                   files, rendered, body_annots, pdf_writer, page_offset,
                   concat_idx, saved, link_url_map, link_orig, link_pages,
                   link_passes>>

\* The loop condition fails: generate_toc_pdf returns toc_pages.
TocReturn ==
    /\ pc = "toc"
    /\ ~(next_idx < Len(title_list))
    /\ pc' = "toc_done"
    /\ UNCHANGED <<pureVars, rev, page_list, title_list, output_list, url_to_page, page_num,
                   files, rendered, body_annots, pdf_writer, page_offset,
                   concat_idx, toc_pages, next_idx, saved, link_url_map,
                   link_orig, link_pages, link_passes>>

NextToc == TocPageStep \/ TocReturn

SpecToc == InitToc /\ [][NextToc]_vars

\* generate_toc_pdf is a plain loop of a single thread: it keeps running while
\* it has a step to take.
SpecTocFair == InitToc /\ [][NextToc]_vars /\ WF_vars(NextToc)

(***************************************************************************)
(* URLs.  A URL is a sequence of characters, so that the sanitising of     *)
(* create_pdf can be computed on it.                                       *)
(***************************************************************************)
UrlAB == <<"a", "/", "b">>
UrlA_B == <<"a", ":", "b">>
UrlC == <<"c">>
\* a URI that is the title of no page of any book
ExternalUrl == <<"x">>

(***************************************************************************)
(* Annotations and actions (pikepdf dictionaries: functions on their keys).*)
(***************************************************************************)
UriAction(uri) == ("/S" :> "/URI") @@ ("/URI" :> uri)

\* The action replace_url_link builds: Dictionary({"/S": /GoTo, "/D": [n, /Fit]}).
GoToAction(n) == ("/S" :> "/GoTo") @@ ("/D" :> <<n, "/Fit">>)

\* An action the renderer may have produced that carries no /URI.
NamedAction == ("/S" :> "/Named") @@ ("/N" :> "/NextPage")

LinkAnnot(uri) == ("/Subtype" :> "/Link") @@ ("/A" :> UriAction(uri))

\* The annotations a rendered page may carry.
AnnotKinds ==
    { LinkAnnot(UrlAB), LinkAnnot(UrlC), LinkAnnot(ExternalUrl),
      ("/Subtype" :> "/Link") @@ ("/Dest" :> "top"),
      ("/Subtype" :> "/Link") @@ ("/A" :> NamedAction),
      ("/Subtype" :> "/Text") @@ ("/A" :> UriAction(UrlAB)) }

(***************************************************************************)
(* Collection.replace_links_in_page / replace_url_link.                    *)
(***************************************************************************)
\* a = annot.get("/A", None) if subtype == "/Link" else None: {} stands for None
AnnotAction(annot) ==
    IF annot["/Subtype"] = "/Link" /\ "/A" \in DOMAIN annot
    THEN {annot["/A"]} ELSE {}

\* uri = a.get("/URI", None) if a is not None else None: {} stands for None
AnnotUri(annot) ==
    {a["/URI"] : a \in {b \in AnnotAction(annot) : "/URI" \in DOMAIN b}}

\* Mutant: the new action keeps the URI and holds the action it replaces.
ReplaceUrlLink_keep(map, uri, annot) ==
    [annot EXCEPT !["/A"] =
        ("/URI" :> uri) @@ ("/Prev" :> @) @@ GoToAction(map[uri])]

\* Mutant: a second action is chained to the old one instead of replacing it.
ReplaceUrlLink_chain(map, uri, annot) ==
    [annot EXCEPT !["/A"] = @ @@ ("/Next" :> GoToAction(map[uri]))]

\* Mutant: the destination is the registered page without the + 1 offset kept
\* in url_to_page.
ReplaceUrlLink_other(map, uri, annot) ==
    [annot EXCEPT !["/A"] = GoToAction(map[uri] - 1)]

\* replace_url_link: annot_obj["/A"] = Dictionary(GoTo, [url_to_page[uri], /Fit])
ReplaceUrlLink(map, uri, annot) ==
    [annot EXCEPT !["/A"] = GoToAction(map[uri])]

\* Mutant: every Link annotation with a URI is rewritten; a URI that is no key
\* goes to page 1.
RewriteAnnot_all(map, annot) ==
    LET uris == AnnotUri(annot)
    IN IF uris # {}
       THEN LET uri == CHOOSE u \in uris : TRUE
            IN IF uri \in DOMAIN map THEN ReplaceUrlLink(map, uri, annot)
               ELSE [annot EXCEPT !["/A"] = GoToAction(1)]
       ELSE annot

\* The body of the for loop: if uri in self.url_to_page: replace_url_link(...)
RewriteAnnot(map, annot) ==
    LET uris == AnnotUri(annot)
    IN IF \E u \in uris : u \in DOMAIN map
       THEN ReplaceUrlLink(map, CHOOSE u \in uris : TRUE, annot)
       ELSE annot

\* The for loop over page["/Annots"], from the i-th annotation on.
RECURSIVE ReplaceLoop(_, _, _)
ReplaceLoop(map, items, i) ==
    IF i > Len(items) THEN items
    ELSE ReplaceLoop(map, [items EXCEPT ![i] = RewriteAnnot(map, items[i])], i + 1)

\* Mutant: the loop stops after the first annotation it rewrote.
RECURSIVE ReplaceLoopFirst(_, _, _)
ReplaceLoopFirst(map, items, i) ==
    IF i > Len(items) THEN items
    ELSE IF RewriteAnnot(map, items[i]) # items[i]
         THEN [items EXCEPT ![i] = RewriteAnnot(map, items[i])]
         ELSE ReplaceLoopFirst(map, items, i + 1)

ReplaceLinksInPage_first(map, page) ==
    IF ~page.annots.present THEN page
    ELSE [page EXCEPT !.annots.items = ReplaceLoopFirst(map, @, 1)]

\* replace_links_in_page(page)
ReplaceLinksInPage(map, page) ==
    IF ~page.annots.present THEN page
    ELSE [page EXCEPT !.annots.items = ReplaceLoop(map, @, 1)]

(***************************************************************************)
(* SpecLinks: replace_links_in_page called on the pages of a document, in  *)
(* any order, against a fixed url_to_page.                                 *)
(***************************************************************************)
\* The url_to_page maps of SpecLinks.
LinkUrlMaps ==
    { <<>>,
      (UrlAB :> 2),
      (UrlAB :> 2) @@ (UrlC :> 2),
      (UrlAB :> 2) @@ (UrlC :> 4) }

\* How many annotations each page carries.
LinkShapes ==
    { lens \in UNION { [1..np -> 0..MaxAnnots] : np \in 1..MaxLinkPages } :
        SumSeq(lens) <= MaxAnnots }

\* The document whose pages carry the annotations of flat, lens[k] of them on
\* page k; a page without annotations has an empty array or no /Annots at all.
LinkDoc(lens, flat, present) ==
    [k \in 1..Len(lens) |->
        LET before == SumSeq(SubSeq(lens, 1, k - 1))
        IN BodyPage(k, 1, k,
                    IF present[k]
                    THEN Annots(SubSeq(flat, before + 1, before + lens[k]))
                    ELSE NoAnnots)]

InitLinks ==
    /\ PureIdle
    /\ pc = "links"
    /\ link_url_map \in LinkUrlMaps
    /\ \E lens \in LinkShapes :
         \E flat \in [1..SumSeq(lens) -> AnnotKinds] :
           \E present \in [1..Len(lens) -> BOOLEAN] :
              /\ \A k \in 1..Len(lens) : lens[k] > 0 => present[k]
              /\ link_orig = LinkDoc(lens, flat, present)
    /\ link_pages = link_orig
    /\ link_passes = [k \in 1..Len(link_orig) |-> 0]
    /\ rev = "new"
    /\ page_list = <<>>
    /\ title_list = <<>>
    /\ output_list = <<>>
    /\ url_to_page = <<>>
    /\ page_num = 1
    /\ files = <<>>
    /\ rendered = <<>>
    /\ body_annots = NoAnnots
    /\ pdf_writer = <<>>
    /\ page_offset = 1
    /\ concat_idx = 0
    /\ toc_pages = <<>>
    /\ next_idx = 0
    /\ saved = "none"

\* replace_links_in_page(link_pages[p])
ReplaceLinksStep(p) ==
    /\ pc = "links"
    /\ SumSeq(link_passes) < MaxPasses
    /\ link_pages' = [link_pages EXCEPT ![p] = ReplaceLinksInPage(link_url_map, @)]
    /\ link_passes' = [link_passes EXCEPT ![p] = @ + 1]
    /\ UNCHANGED <<pureVars, pc, rev, page_list, title_list, output_list, url_to_page,
                   page_num, files, rendered, body_annots, pdf_writer,
                   page_offset, concat_idx, toc_pages, next_idx, saved,
                   link_url_map, link_orig>>

NextLinks == \E p \in 1..Len(link_pages) : ReplaceLinksStep(p)

SpecLinks == InitLinks /\ [][NextLinks]_vars

(***************************************************************************)
(* Collection (collection.py): create_pdf, render_pdf, output_page,        *)
(* concat_pages, add_pages.  The TocEntry it builds has the four fields of *)
(* the new revision of toc.py, which is the paginator it runs.             *)
(***************************************************************************)
CollectionTitle == <<"B","o","o","k">>

\* re.sub(r'[\/:*?"<>|]', "_", page.title): in the class, \/ is the character /
BadFileChars == {"/", ":", "*", "?", "\"", "<", ">", "|"}
Sanitize(title) ==
    [i \in 1..Len(title) |-> IF title[i] \in BadFileChars THEN "_" ELSE title[i]]

\* output = build_dir + "/" + sanitized_page
OutputPath(title) == <<"build_dir", "/">> \o Sanitize(title)

\* The pages of the books: TocOffset(title, level) records.
PageItems ==
    { [title |-> UrlAB, level |-> 1],
      [title |-> UrlA_B, level |-> 2],
      [title |-> UrlC, level |-> 2] }

\* The k-th page of the long book.
LongUrl(k) == [i \in 1..k |-> "p"]

PageLists ==
    UNION { [1..n -> PageItems] : n \in 0..MaxFragments }
    \cup { [k \in 1..MaxLong |-> [title |-> LongUrl(k), level |-> 1 + (k % 2)]] }

\* What the renderer puts on the pages of this book: no /Annots, or one link
\* to the book's first page or to a page outside the book.
BodyAnnotChoices(pl) ==
    {NoAnnots}
    \cup { Annots(<<LinkAnnot(u)>>) :
             u \in {pl[i].title : i \in {1} \cap DOMAIN pl} \cup {ExternalUrl} }

\* extract_text_with_xslt(page_content, "h1#firstHeading"): {} stands for None.
\* The page UrlC has no first heading; every other page is headed by its name.
ExtractTextWithXslt(url) == IF url = UrlC THEN {} ELSE {url}

\* The page counts page.pdf() may produce for the next page of this book, when
\* done pages of it have been rendered and the counter stands at pn.
RenderCounts(pl, done, pn) ==
    IF Len(pl) > MaxFragments THEN {1}
    ELSE {c \in 1..MaxBodyPages :
            (pn - 1) + c + (Len(pl) - done - 1) <= MaxBodyPages}

\* TocEntry(..., page=self.page_num, ...): the counter before it is advanced
TocPageAtRegistration(pn) == pn

\* Mutant: the bare counter is recorded for the URL.
UrlPageAtRegistration_same(pn) == pn

\* self.url_to_page[url] = self.page_num + 1
UrlPageAtRegistration(pn) == pn + 1

\* Mutant: the counter advances by one per fragment.
AdvancePageNum_one(pn, page_count) == pn + 1

\* output_page: self.page_num += page_count
AdvancePageNum(pn, page_count) == pn + page_count

\* The fragment page.pdf() produced for the frag-th page of the book, as
\* pdf.save(output_file) stores it, and its pages as Pdf.open(pdf_path) reads
\* them back: every page carries the annotations body_annots.
RenderedFragment(frag, page_count) == [frag |-> frag, page_count |-> page_count]

PagesOfFile(file, annots) ==
    [j \in 1..file.page_count |-> BodyPage(0, file.frag, j, annots)]

InitCollection ==
    /\ PureIdle
    /\ pc = "render"
    /\ rev = "new"
    /\ page_list \in PageLists
    /\ body_annots \in BodyAnnotChoices(page_list)
    /\ title_list = <<>>
    /\ output_list = <<>>
    /\ url_to_page = <<>>
    /\ page_num = 1
    /\ files = <<>>
    /\ rendered = <<>>
    /\ pdf_writer = <<>>
    /\ page_offset = 1
    /\ concat_idx = 0
    /\ toc_pages = <<>>
    /\ next_idx = 0
    /\ saved = "none"
    /\ link_url_map = <<>>
    /\ link_orig = <<>>
    /\ link_pages = <<>>
    /\ link_passes = <<>>

\* Mutant: the loop of create_pdf walks page_list from its end.
NextPageToRender_reversed(pl, done) == pl[Len(pl) - done]

\* for page in self.page_list: the page of the iteration after done iterations
NextPageToRender(pl, done) == pl[done + 1]

\* Mutant: the heading found is used as it is, None printed as a string.
ResolveTitle_unchecked(found) ==
    IF found = {} THEN <<"N","o","n","e">> ELSE CHOOSE t \in found : TRUE

\* if title is None: title = "Untitled"
ResolveTitle(found) ==
    IF found = {} THEN Str_Untitled ELSE CHOOSE t \in found : TRUE

\* One iteration of the loop of create_pdf: render_pdf(page.title, output,
\* page.level), output_page included.  asyncio.run returns when render_pdf
\* has completed, so the iteration is one step.
RenderPdf ==
    /\ pc = "render"
    /\ Len(title_list) < Len(page_list)
    /\ LET page == NextPageToRender(page_list, Len(title_list))
           url == page.title
           output_file == OutputPath(page.title)
           title == ResolveTitle(ExtractTextWithXslt(url))
       IN \E page_count \in RenderCounts(page_list, Len(title_list), page_num) :
            /\ title_list' = Append(title_list,
                   TocEntry(url, title, TocPageAtRegistration(page_num), page.level))
            /\ url_to_page' = (url :> UrlPageAtRegistration(page_num)) @@ url_to_page
            /\ output_list' = Append(output_list, output_file)
            /\ page_num' = AdvancePageNum(page_num, page_count)
            /\ files' = (output_file :>
                           RenderedFragment(Len(title_list) + 1, page_count))
                         @@ files
            /\ rendered' = Append(rendered, page_count)
    /\ UNCHANGED <<pureVars, pc, rev, page_list, body_annots, pdf_writer, page_offset,
                   concat_idx, toc_pages, next_idx, saved, link_url_map,
                   link_orig, link_pages, link_passes>>

\* Mutant: concat_pages is entered while pages are still to be rendered.
StartConcat_early ==
    /\ pc = "render"
    /\ pc' = "concat"
    /\ pdf_writer' = <<>>
    /\ page_offset' = 1
    /\ concat_idx' = 0
    /\ UNCHANGED <<pureVars, rev, page_list, title_list, output_list, url_to_page,
                   page_num, files, rendered, body_annots, toc_pages, next_idx,
                   saved, link_url_map, link_orig, link_pages, link_passes>>

\* create_pdf leaves its loop and calls concat_pages: Pdf.new(), page_offset = 1.
StartConcat ==
    /\ pc = "render"
    /\ Len(title_list) = Len(page_list)
    /\ pc' = "concat"
    /\ pdf_writer' = <<>>
    /\ page_offset' = 1
    /\ concat_idx' = 0
    /\ UNCHANGED <<pureVars, rev, page_list, title_list, output_list, url_to_page, page_num,
                   files, rendered, body_annots, toc_pages, next_idx, saved,
                   link_url_map, link_orig, link_pages, link_passes>>

\* Mutant: the font is added under a name not yet in use (add_resource called
\* without a name), so that every call adds an entry.
EnsureResources_fresh(page) ==
    LET names == <<"/F2", "/R1", "/R2", "/R3", "/R4", "/R5", "/R6", "/R7">>
        free  == {k \in 1..Len(names) : names[k] \notin DOMAIN page.fonts}
        k     == CHOOSE f \in free : \A g \in free : f <= g
    IN [page EXCEPT !.fonts = (names[k] :> "Arial") @@ @]

\* ensure_resources: page.add_resource(font_dictionary(), /Font, /F2)
EnsureResources(page) == [page EXCEPT !.fonts = ("/F2" :> "Arial") @@ @]

\* add_header / add_footer: page.contents_add(encoded, prepend=True)
AddHeader(header, page) ==
    [page EXCEPT !.contents = <<Header(header, HF_FONT_SIZE, "/F2")>> \o @]
AddFooter(footer, page) ==
    [page EXCEPT !.contents = <<Footer(footer, HF_FONT_SIZE, "/F2")>> \o @]

\* The body of the loop of add_pages, up to writer.pages.append(page).
DecoratePage(map, page, page_number) ==
    ReplaceLinksInPage(map,
        AddFooter(Str_Page \o IntToStr(page_number),
            AddHeader(CollectionTitle, EnsureResources(page))))

\* add_pages(pages, writer, start_page): the writer's pages afterwards.  A page
\* appended to the writer is a new object of the writer: its id is its position.
RECURSIVE AddPages(_, _, _, _)
AddPages(map, pages, writer, page_number) ==
    IF pages = <<>> THEN writer
    ELSE AddPages(map, Tail(pages),
                  Append(writer,
                         [DecoratePage(map, Head(pages), page_number)
                             EXCEPT !.id = Len(writer) + 1]),
                  page_number + 1)

\* Mutant: the offset advances by one per file.
NextPageOffset_one(offset, pages) == offset + 1

\* page_offset += len(pages)
NextPageOffset(offset, pages) == offset + Len(pages)

\* One iteration of the loop over output_list in concat_pages.
\* Mutant: concat_pages counts the pages with self.page_num instead of a
\* local of its own.
ConcatFile_counting ==
    /\ pc = "concat"
    /\ concat_idx < Len(output_list)
    /\ LET pdf_path == output_list[concat_idx + 1]
           pages == PagesOfFile(files[pdf_path], body_annots)
       IN /\ pdf_writer' = AddPages(url_to_page, pages, pdf_writer, page_offset)
          /\ page_offset' = NextPageOffset(page_offset, pages)
          /\ page_num' = NextPageOffset(page_num, pages)
    /\ concat_idx' = concat_idx + 1
    /\ UNCHANGED <<pureVars, pc, rev, page_list, title_list, output_list, url_to_page,
                   files, rendered, body_annots, toc_pages, next_idx,
                   saved, link_url_map, link_orig, link_pages, link_passes>>

ConcatFile ==
    /\ pc = "concat"
    /\ concat_idx < Len(output_list)
    /\ LET pdf_path == output_list[concat_idx + 1]
           pages == PagesOfFile(files[pdf_path], body_annots)
       IN /\ pdf_writer' = AddPages(url_to_page, pages, pdf_writer, page_offset)
          /\ page_offset' = NextPageOffset(page_offset, pages)
    /\ concat_idx' = concat_idx + 1
    /\ UNCHANGED <<pureVars, pc, rev, page_list, title_list, output_list, url_to_page,
                   page_num, files, rendered, body_annots, toc_pages, next_idx,
                   saved, link_url_map, link_orig, link_pages, link_passes>>

\* toc = TableOfContents(pdf_writer, self.title_list); toc.generate_toc_pdf().
\* An IndexError of get_annot leaves concat_pages and create_pdf.
GenerateToc ==
    /\ pc = "concat"
    /\ concat_idx = Len(output_list)
    /\ LET toc == GenerateTocPdf(rev, pdf_writer, title_list)
       IN IF toc.raised
          THEN /\ pc' = "raised"
               /\ UNCHANGED toc_pages
          ELSE /\ pc' = "insert"
               /\ toc_pages' = toc.pages
    /\ UNCHANGED <<pureVars, rev, page_list, title_list, output_list, url_to_page, page_num,
                   files, rendered, body_annots, pdf_writer, page_offset,
                   concat_idx, next_idx, saved, link_url_map, link_orig,
                   link_pages, link_passes>>

\* pdf_writer.pages.insert(page - 1, toc_page) for a 1-based page
InsertAt(writer, page, toc_page) ==
    SubSeq(writer, 1, page - 1) \o <<toc_page>> \o SubSeq(writer, page, Len(writer))

\* The loop over toc_pages: ensure_resources, roman footer, insert at the front.
RECURSIVE InsertTocPages(_, _, _)
InsertTocPages(writer, tocs, page) ==
    IF page > Len(tocs) THEN writer
    ELSE InsertTocPages(
             InsertAt(writer, page,
                      AddFooter(IntToRoman(page), EnsureResources(tocs[page]))),
             tocs, page + 1)

InsertToc ==
    /\ pc = "insert"
    /\ pdf_writer' = InsertTocPages(pdf_writer, toc_pages, 1)
    /\ pc' = "save"
    /\ UNCHANGED <<pureVars, rev, page_list, title_list, output_list, url_to_page, page_num,
                   files, rendered, body_annots, page_offset, concat_idx,
                   toc_pages, next_idx, saved, link_url_map, link_orig,
                   link_pages, link_passes>>

\* pdf_writer.save(self.output_file): the file is written, or OSError is caught
\* and logged; either way concat_pages returns and create_pdf returns
\* self.output_file.
Save ==
    /\ pc = "save"
    /\ \E ok \in BOOLEAN :
         saved' = IF ok THEN "written" ELSE "oserror_logged"
    /\ pc' = "done"
    /\ UNCHANGED <<pureVars, rev, page_list, title_list, output_list, url_to_page, page_num,
                   files, rendered, body_annots, pdf_writer, page_offset,
                   concat_idx, toc_pages, next_idx, link_url_map, link_orig,
                   link_pages, link_passes>>

Next == RenderPdf \/ StartConcat \/ ConcatFile \/ GenerateToc \/ InsertToc \/ Save

Spec == InitCollection /\ [][Next]_vars

(***************************************************************************)
(* SpecRoman: Common.int_to_roman called on a number, and the loop of      *)
(* concat_pages that foots the TOC pages with it and puts them in front.   *)
(***************************************************************************)
\* A Collection between its construction and create_pdf.
CollectionIdle ==
    /\ rev = "new"
    /\ page_list = <<>>
    /\ title_list = <<>>
    /\ output_list = <<>>
    /\ url_to_page = <<>>
    /\ page_num = 1
    /\ files = <<>>
    /\ rendered = <<>>
    /\ body_annots = NoAnnots
    /\ pdf_writer = <<>>
    /\ page_offset = 1
    /\ concat_idx = 0
    /\ toc_pages = <<>>
    /\ next_idx = 0
    /\ saved = "none"

LinksIdle ==
    /\ link_url_map = <<>>
    /\ link_orig = <<>>
    /\ link_pages = <<>>
    /\ link_passes = <<>>

\* Either int_to_roman is about to be called on a number, or concat_pages has
\* assembled a body of n one-page fragments and generated the TOC pages of its
\* n entries.
InitRoman ==
    /\ LinksIdle
    /\ \/ /\ pc = "roman"
          /\ roman_num \in 0..MaxRoman
          /\ roman_result = <<>>
          /\ BookIdle
          /\ UnitIdle
          /\ CollectionIdle
       \/ /\ pc = "insert"
          /\ PureIdle
          /\ rev = "new"
          /\ \E b \in 0..MaxTocBatches :
               LET n == b * TocBatch
                   body == [k \in 1..n |-> BodyPage(k, k, 1, NoAnnots)]
               IN /\ title_list = [k \in 1..n |-> TocInputEntry(k)]
                  /\ pdf_writer = body
                  /\ toc_pages = GenerateTocPdf(rev, body, title_list).pages
                  /\ rendered = [k \in 1..n |-> 1]
                  /\ page_num = n + 1
                  /\ page_offset = n + 1
                  /\ concat_idx = n
                  /\ next_idx = n
          /\ page_list = <<>>
          /\ output_list = <<>>
          /\ url_to_page = <<>>
          /\ files = <<>>
          /\ body_annots = NoAnnots
          /\ saved = "none"

\* Common.int_to_roman(num)
IntToRomanCall ==
    /\ pc = "roman"
    /\ roman_result' = IntToRoman(roman_num)
    /\ pc' = "roman_done"
    /\ UNCHANGED <<roman_num, bookVars, unitVars, rev, page_list, title_list, output_list,
                   url_to_page, page_num, files, rendered, body_annots,
                   pdf_writer, page_offset, concat_idx, toc_pages, next_idx,
                   saved, link_url_map, link_orig, link_pages, link_passes>>

NextRoman == IntToRomanCall \/ InsertToc

SpecRoman == InitRoman /\ [][NextRoman]_vars

(***************************************************************************)
(* structure.py: parse_line, populate_book, get_ordered_wiki_pages.  A     *)
(* string is a sequence of characters; Python indices count from 0.        *)
(***************************************************************************)
\* str.find(sub): the lowest index at which sub occurs, -1 if it does not.
Find(str, sub) ==
    LET hits == {i \in 0..(Len(str) - Len(sub)) :
                    SubSeq(str, i + 1, i + Len(sub)) = sub}
    IN IF hits = {} THEN -1
       ELSE CHOOSE i \in hits : \A h \in hits : i <= h

\* A slice bound as Python normalises it: a negative bound counts from the
\* end, and the result is clipped to 0..len.
SliceBound(len, b) ==
    LET c == IF b < 0 THEN b + len ELSE b
    IN IF c < 0 THEN 0 ELSE IF c > len THEN len ELSE c

\* str[a:b]
PySlice(str, a, b) ==
    SubSeq(str, SliceBound(Len(str), a) + 1, SliceBound(Len(str), b))

\* str[a:]
PySliceFrom(str, a) == PySlice(str, a, Len(str))

\* str.split(sep, 1): the parts around the first sep, or the string alone.
SplitOnce(str, sep) ==
    LET at == Find(str, sep)
    IN IF at = -1 THEN <<str>>
       ELSE <<PySlice(str, 0, at), PySliceFrom(str, at + Len(sep))>>

\* str.startswith(prefix)
StartsWith(str, prefix) ==
    Len(str) >= Len(prefix) /\ SubSeq(str, 1, Len(prefix)) = prefix

\* str.strip()
Whitespace == {" ", "\t", "\n", "\r"}
RECURSIVE Strip(_)
Strip(str) ==
    IF str = <<>> THEN str
    ELSE IF Head(str) \in Whitespace THEN Strip(Tail(str))
    ELSE IF str[Len(str)] \in Whitespace THEN Strip(SubSeq(str, 1, Len(str) - 1))
    ELSE str

WikiLink(link, label) == [url |-> link, label |-> label]
WikiPage(link, level) == [link |-> link, level |-> level]
Section(page) == [title |-> page.link.label, wiki_pages |-> <<page>>]
\* sections holds references into section_objs
Chapter(page) ==
    [title |-> page.link.label, wiki_pages |-> <<page>>, sections |-> <<>>]
Book(link) ==
    [link |-> link, front_matter |-> <<WikiPage(link, 1)>>,
     title |-> link.label, chapters |-> <<>>]

\* parse_line(line): the WikiLink, or raised when the unpacking of the split
\* into link, label fails with ValueError.
ParseLine(line) ==
    LET start == Find(line, <<"[", "[">>) + 2
        end == Find(line, <<"]", "]">>)
        parts == SplitOnce(PySlice(line, start, end), <<"|">>)
    IN IF Len(parts) # 2
       THEN [raised |-> TRUE, wikilink |-> WikiLink(<<>>, <<>>)]
       ELSE [raised |-> FALSE, wikilink |-> WikiLink(parts[1], parts[2])]

\* get_ordered_wiki_pages(book), the sections read through their references
GetOrderedWikiPages(b, objs) ==
    b.front_matter
    \o Flatten([c \in 1..Len(b.chapters) |->
          b.chapters[c].wiki_pages
          \o Flatten([k \in 1..Len(b.chapters[c].sections) |->
                objs[b.chapters[c].sections[k]].wiki_pages])])

(***************************************************************************)
(* SpecBook: populate_book on a book-structure text, one line per step.    *)
(***************************************************************************)
PrefixChapter == <<"*", " ">>
PrefixSection == <<":", "*", " ">>
PrefixWikiPage == <<":", ":", "*", " ">>

\* The first lines of the texts: the book's own link, whole or without "|".
FirstLines ==
    { <<"*"," ","[","[","t","|","T","]","]">>,
      <<"*"," ","[","[","t","]","]">> }

\* The later lines: a chapter, a section and a sub-page line with a whole
\* link (the last one indented), a blank line, and lines whose link lacks
\* the "|", the "[[", the "]]" or all of them.
WholeLines ==
    { <<"*"," ","[","[","a","|","A","]","]">>,
      <<":","*"," ","[","[","b","|","B","]","]">>,
      <<" ",":",":","*"," ","[","[","c","|","C","]","]"," ">> }
BrokenLines ==
    { <<"*"," ","[","[","a","]","]">>,
      <<"*"," ","a","|","A","]","]">>,
      <<"*"," ","[","[","a","|","A">>,
      <<":","*"," ","b">> }
BookLines == WholeLines \cup BrokenLines \cup { <<>> }

InitBook ==
    /\ pc = "book"
    /\ \E first \in FirstLines :
         \E n \in 0..MaxBookLines :
           \E rest \in [1..n -> BookLines] :
              lines = <<first>> \o rest
    /\ line_idx = 0
    /\ book = {}
    /\ current_chapter = {}
    /\ current_section = 0
    /\ section_objs = <<>>
    /\ raised_exc = ""
    /\ roman_num = 0
    /\ roman_result = <<>>
    /\ UnitIdle
    /\ CollectionIdle
    /\ LinksIdle

\* book_link = parse_line(lines[0].strip()); book = Book(book_link)
PopulateBookStart ==
    /\ pc = "book"
    /\ LET book_link == ParseLine(Strip(lines[1]))
       IN IF book_link.raised
          THEN /\ pc' = "book_raised"
               /\ raised_exc' = "ValueError"
               /\ UNCHANGED book
          ELSE /\ pc' = "book_loop"
               /\ book' = {Book(book_link.wikilink)}
               /\ UNCHANGED raised_exc
    /\ UNCHANGED <<lines, line_idx, current_chapter, current_section,
                   section_objs, roman_num, roman_result, unitVars, rev, page_list,
                   title_list, output_list, url_to_page, page_num, files,
                   rendered, body_annots, pdf_writer, page_offset, concat_idx,
                   toc_pages, next_idx, saved, link_url_map, link_orig,
                   link_pages, link_passes>>

\* The book with the current chapter appended to its chapters.
AppendChapter(b, chapter) ==
    {[bk EXCEPT !.chapters = Append(@, ch)] : bk \in b, ch \in chapter}

\* The effect of the chapter-level branch of the loop body on
\* <<book, current_chapter>>.
ChapterLine(b, chapter, wikilink) ==
    [book |-> IF chapter # {} THEN AppendChapter(b, chapter) ELSE b,
     current_chapter |-> {Chapter(WikiPage(wikilink, 1))}]

\* One iteration of the loop over lines[1:].
PopulateBookLine ==
    /\ pc = "book_loop"
    /\ line_idx < Len(lines) - 1
    /\ line_idx' = line_idx + 1
    /\ LET line == Strip(lines[line_idx + 2])
           raise(exc) ==
               /\ pc' = "book_raised"
               /\ raised_exc' = exc
               /\ UNCHANGED <<book, current_chapter, current_section,
                              section_objs>>
       IN IF StartsWith(line, PrefixChapter)
          THEN LET parsed == ParseLine(PySliceFrom(line, 2))
               IN IF parsed.raised THEN raise("ValueError")
                  ELSE LET after == ChapterLine(book, current_chapter,
                                                parsed.wikilink)
                       IN /\ book' = after.book
                          /\ current_chapter' = after.current_chapter
                          /\ UNCHANGED <<pc, raised_exc, current_section,
                                         section_objs>>
          ELSE IF StartsWith(line, PrefixSection)
          THEN LET parsed == ParseLine(PySliceFrom(line, 3))
                   wikipage == WikiPage(parsed.wikilink, 2)
               IN IF parsed.raised THEN raise("ValueError")
                  ELSE IF current_chapter = {}
                  THEN raise("NoChapterForSectionError")
                  ELSE \* current_chapter.start_section(wikipage)
                       /\ section_objs' = Append(section_objs, Section(wikipage))
                       /\ current_section' = Len(section_objs) + 1
                       /\ current_chapter' =
                             {[ch EXCEPT !.sections =
                                  Append(@, Len(section_objs) + 1)] :
                                ch \in current_chapter}
                       /\ UNCHANGED <<pc, raised_exc, book>>
          ELSE IF StartsWith(line, PrefixWikiPage)
          THEN LET parsed == ParseLine(PySliceFrom(line, 4))
                   wiki_page == WikiPage(parsed.wikilink, 2)
               IN IF parsed.raised THEN raise("ValueError")
                  ELSE IF current_section # 0
                  THEN /\ section_objs' =
                             [section_objs EXCEPT ![current_section].wiki_pages
                                                     = Append(@, wiki_page)]
                       /\ UNCHANGED <<pc, raised_exc, book, current_chapter,
                                      current_section>>
                  ELSE IF current_chapter # {}
                  THEN /\ current_chapter' =
                             {[ch EXCEPT !.wiki_pages = Append(@, wiki_page)] :
                                ch \in current_chapter}
                       /\ UNCHANGED <<pc, raised_exc, book, current_section,
                                      section_objs>>
                  ELSE UNCHANGED <<pc, raised_exc, book, current_chapter,
                                   current_section, section_objs>>
          ELSE UNCHANGED <<pc, raised_exc, book, current_chapter,
                           current_section, section_objs>>
    /\ UNCHANGED <<lines, roman_num, roman_result, unitVars, rev, page_list, title_list,
                   output_list, url_to_page, page_num, files, rendered,
                   body_annots, pdf_writer, page_offset, concat_idx, toc_pages,
                   next_idx, saved, link_url_map, link_orig, link_pages,
                   link_passes>>

\* The loop is over: the last chapter is appended and the book returned.
PopulateBookReturn ==
    /\ pc = "book_loop"
    /\ line_idx = Len(lines) - 1
    /\ book' = IF current_chapter # {} THEN AppendChapter(book, current_chapter)
               ELSE book
    /\ pc' = "book_done"
    /\ UNCHANGED <<lines, line_idx, current_chapter, current_section,
                   section_objs, raised_exc, roman_num, roman_result, unitVars, rev,
                   page_list, title_list, output_list, url_to_page, page_num,
                   files, rendered, body_annots, pdf_writer, page_offset,
                   concat_idx, toc_pages, next_idx, saved, link_url_map,
                   link_orig, link_pages, link_passes>>

NextBook == PopulateBookStart \/ PopulateBookLine \/ PopulateBookReturn

SpecBook == InitBook /\ [][NextBook]_vars

(***************************************************************************)
(* Properties of the paginator (checked under SpecToc).                    *)
(***************************************************************************)
\* The TocEntry records laid out on a TOC page, top to bottom.
EntriesOf(page) == [i \in 1..Len(page.entries) |-> page.entries[i].entry]

\* The entries of the pages generated so far, in page order.
LaidOut == Flatten([k \in 1..Len(toc_pages) |-> EntriesOf(toc_pages[k])])

PageCounts == [k \in 1..Len(toc_pages) |-> Len(toc_pages[k].entries)]

\* C1: the entries on the generated TOC pages, read in page order and top to
\* bottom, are the input list in its original order - after every page the
\* prefix title_list[0:next_idx], at the return the whole list - and the
\* per-page entry counts sum to the number of entries laid out.
C1_TocPartition ==
    pc \in {"toc", "toc_done"} =>
        /\ next_idx <= Len(title_list)
        /\ LaidOut = SubSeq(title_list, 1, next_idx)
        /\ SumSeq(PageCounts) = next_idx
        /\ (pc = "toc_done" => /\ next_idx = Len(title_list)
                               /\ LaidOut = title_list
                               /\ SumSeq(PageCounts) = Len(title_list))

\* C1 witness: a list that needed three pages, the last one partly filled.
C1_Witness ==
    /\ pc = "toc_done"
    /\ Len(toc_pages) = 3
    /\ Len(toc_pages[3].entries) < Len(toc_pages[2].entries)
    /\ LaidOut = title_list

\* C9 as claimed: when the list spans more than one TOC page, the first TOC
\* page holds fewer entries than each full subsequent page (a page that was
\* closed at the bottom: every page but the last).
C9_FirstPageFewer ==
    (pc = "toc_done" /\ Len(toc_pages) > 1) =>
        \A k \in 2..(Len(toc_pages) - 1) :
            Len(toc_pages[1].entries) < Len(toc_pages[k].entries)

\* C9 amended: when the list spans more than one TOC page, the first page holds
\* 31 entries and each full subsequent page 30 in the new revision (the first
\* page's entries start TOC_FONT_SIZE higher), every full page holds 26 in the
\* old revision; the per-page counts always sum to the number of entries, and
\* 30 entries give one page of 30 (new) or pages of 26 and 4 (old).
C9_FirstPageNotFewer ==
    pc = "toc_done" =>
        /\ SumSeq(PageCounts) = Len(title_list)
        /\ Len(toc_pages) > 1 =>
              /\ Len(toc_pages[1].entries) = (IF rev = "new" THEN 31 ELSE 26)
              /\ \A k \in 2..(Len(toc_pages) - 1) :
                    Len(toc_pages[k].entries) = (IF rev = "new" THEN 30 ELSE 26)
        /\ Len(title_list) = 30 =>
              PageCounts = (IF rev = "new" THEN <<30>> ELSE <<26, 4>>)

\* C9 witness: the new revision with a full continuation page after the first.
C9_Witness ==
    /\ pc = "toc_done"
    /\ rev = "new"
    /\ Len(toc_pages) = 3
    /\ Len(toc_pages[1].entries) > Len(toc_pages[2].entries)

\* C10: on every generated TOC page every entry's vertical offset is at or
\* above the bottom margin.
C10_AboveBottomMargin ==
    \A k \in 1..Len(toc_pages) :
        \A i \in 1..Len(toc_pages[k].entries) :
            toc_pages[k].entries[i].offset >= MARGIN

\* C10 witness: a first page and a continuation page, both filled to the bottom.
C10_Witness ==
    /\ pc = "toc_done"
    /\ Len(toc_pages) >= 3
    /\ \A k \in 1..2 :
          BreakAtBottom(rev, toc_pages[k].entries[Len(toc_pages[k].entries)].offset
                             - LINE_HEIGHT)

\* C11: generate_toc_pdf on an empty entry list returns an empty list of
\* pages, and no generated TOC page holds zero entries.
C11_NoEmptyTocPage ==
    /\ \A k \in 1..Len(toc_pages) : Len(toc_pages[k].entries) >= 1
    /\ (pc = "toc_done" /\ title_list = <<>>) => toc_pages = <<>>
    /\ Len(toc_pages) <= Len(title_list)

\* C11 witness: generate_toc_pdf has returned for the empty list.
C11_Witness ==
    /\ pc = "toc_done"
    /\ title_list = <<>>
    /\ toc_pages = <<>>

\* Every entry's page is a page of the document, so that get_annot cannot raise.
EveryEntryHasPage ==
    \A j \in 1..Len(title_list) :
        title_list[j].page >= 1 /\ title_list[j].page <= Len(pdf_writer)

\* C12: generate_toc_pdf terminates for every entry list: a call of
\* generate_single_toc_page that returns has placed at least one entry
\* (next_idx > start_idx), the loop is left eventually, a return of
\* generate_toc_pdf finds all entries consumed, and that return is reached
\* whenever every entry's page is in the document (otherwise the IndexError of
\* get_annot ends the call).
C12_TocTerminates ==
    /\ [][toc_pages' # toc_pages => next_idx' > next_idx]_vars
    /\ <>(pc \in {"toc_done", "toc_raised"})
    /\ [](pc = "toc_done" => next_idx = Len(title_list))
    /\ (EveryEntryHasPage => <>(pc = "toc_done" /\ next_idx = Len(title_list)))

\* C12 witness: the loop ran more than once and was left with all of a list
\* of more than sixty entries consumed.
C12_Witness ==
    /\ pc = "toc_done"
    /\ Len(toc_pages) >= 2
    /\ Len(title_list) > 60
    /\ next_idx = Len(title_list)
    /\ EveryEntryHasPage

(***************************************************************************)
(* Properties of the link rewriter (checked under SpecLinks).              *)
(***************************************************************************)
\* The annotation is a Link whose action carries a URI that is a key of map.
IsMappedLink(map, annot) ==
    /\ annot["/Subtype"] = "/Link"
    /\ "/A" \in DOMAIN annot
    /\ "/URI" \in DOMAIN annot["/A"]
    /\ annot["/A"]["/URI"] \in DOMAIN map

\* The pages a rewrite pass has run on, and the positions of their annotations.
RewrittenPages == {p \in 1..Len(link_pages) : link_passes[p] >= 1}
AnnotPositions(p) == 1..Len(link_orig[p].annots.items)
OrigAnnot(p, i) == link_orig[p].annots.items[i]
CurAnnot(p, i) == link_pages[p].annots.items[i]

\* C6: after replace_links_in_page, every Link annotation whose action carried
\* a URI that is a key of url_to_page has, under the same keys as before, the
\* single action {/S /GoTo, /D [url_to_page[uri], /Fit]}: no /URI is left in
\* it and no further action is attached.
C6_MappedLinkRewritten ==
    \A p \in RewrittenPages :
        /\ Len(link_pages[p].annots.items) = Len(link_orig[p].annots.items)
        /\ \A i \in AnnotPositions(p) :
              IsMappedLink(link_url_map, OrigAnnot(p, i)) =>
                 /\ DOMAIN CurAnnot(p, i) = DOMAIN OrigAnnot(p, i)
                 /\ \A k \in DOMAIN OrigAnnot(p, i) \ {"/A"} :
                       CurAnnot(p, i)[k] = OrigAnnot(p, i)[k]
                 /\ DOMAIN CurAnnot(p, i)["/A"] = {"/S", "/D"}
                 /\ CurAnnot(p, i)["/A"]["/S"] = "/GoTo"
                 /\ CurAnnot(p, i)["/A"]["/D"] =
                       <<link_url_map[OrigAnnot(p, i)["/A"]["/URI"]], "/Fit">>

\* C6 witness: a pass has rewritten a link to a registered URL.
C6_Witness ==
    \E p \in RewrittenPages : \E i \in AnnotPositions(p) :
        /\ IsMappedLink(link_url_map, OrigAnnot(p, i))
        /\ CurAnnot(p, i)["/A"]["/S"] = "/GoTo"
        /\ OrigAnnot(p, i)["/A"]["/S"] = "/URI"

\* C7: replace_links_in_page leaves every annotation that has no action, is
\* no Link or whose URI is no key of url_to_page exactly as it was, changes
\* nothing else of the page, and leaves a page without /Annots unchanged.
C7_OthersUntouched ==
    \A p \in 1..Len(link_pages) :
        /\ [link_pages[p] EXCEPT !.annots = NoAnnots]
              = [link_orig[p] EXCEPT !.annots = NoAnnots]
        /\ link_pages[p].annots.present = link_orig[p].annots.present
        /\ ~link_orig[p].annots.present => link_pages[p] = link_orig[p]
        /\ Len(link_pages[p].annots.items) = Len(link_orig[p].annots.items)
        /\ \A i \in AnnotPositions(p) :
              ~IsMappedLink(link_url_map, OrigAnnot(p, i)) =>
                 CurAnnot(p, i) = OrigAnnot(p, i)

\* C7 witness: a pass ran on a page that carries a link to a URL outside the
\* map next to one the pass rewrote, and on a page without /Annots.
C7_Witness ==
    \E p, q \in RewrittenPages : \E i, j \in AnnotPositions(p) :
        /\ OrigAnnot(p, i) = LinkAnnot(ExternalUrl)
        /\ CurAnnot(p, i) = LinkAnnot(ExternalUrl)
        /\ CurAnnot(p, j) # OrigAnnot(p, j)
        /\ ~link_orig[q].annots.present

Reverse(seq) == [i \in 1..Len(seq) |-> seq[Len(seq) + 1 - i]]

\* C8: the outcome of the pass does not depend on the order of the visits.
\* Whatever order the pages were visited in, two annotations that were equal
\* before the pass - on one page or on two - are equal after it, so two links
\* to the same URL carry the same destination; and visiting a page's
\* annotations in the opposite order gives every annotation the same result.
C8_OrderIndependent ==
    /\ \A p, q \in RewrittenPages :
          \A i \in AnnotPositions(p), j \in AnnotPositions(q) :
             OrigAnnot(p, i) = OrigAnnot(q, j) => CurAnnot(p, i) = CurAnnot(q, j)
    /\ \A p \in 1..Len(link_orig) :
          LET page == link_orig[p]
              mirrored == [page EXCEPT !.annots.items = Reverse(@)]
          IN ReplaceLinksInPage(link_url_map, mirrored).annots.items
                = Reverse(ReplaceLinksInPage(link_url_map, page).annots.items)

\* C8 witness: two pages each carry a link to the same registered URL; both
\* were visited and both links have one destination.
C8_Witness ==
    /\ Len(link_pages) >= 2
    /\ link_passes[1] >= 1 /\ link_passes[2] >= 1
    /\ \E i \in AnnotPositions(1), j \in AnnotPositions(2) :
          /\ IsMappedLink(link_url_map, OrigAnnot(1, i))
          /\ OrigAnnot(1, i) = OrigAnnot(2, j)
          /\ CurAnnot(1, i)["/A"] = CurAnnot(2, j)["/A"]
          /\ CurAnnot(1, i)["/A"]["/S"] = "/GoTo"

(***************************************************************************)
(* Properties of the pipeline (checked under Spec).                        *)
(***************************************************************************)
\* The document is assembled: the TOC pages are in front of the body.
Assembled == pc \in {"save", "done"}

\* The TOC annotations of the assembled document, in reading order: the j-th
\* one belongs to title_list[j].
TocPagesOfDoc == SelectSeq(pdf_writer, LAMBDA pg : pg.kind = "toc")
TocAnnotsOfDoc ==
    Flatten([k \in 1..Len(TocPagesOfDoc) |-> TocPagesOfDoc[k].entries])

\* The 1-based position in the document of the body page with this id.
FinalPosition(id) ==
    CHOOSE p \in 1..Len(pdf_writer) :
        pdf_writer[p].kind = "body" /\ pdf_writer[p].id = id

\* The fragment whose registration url_to_page[url] records: the last one.
RegisteredFragment(url) ==
    CHOOSE j \in 1..Len(title_list) :
        /\ title_list[j].url = url
        /\ \A i \in (j + 1)..Len(title_list) : title_list[i].url # url

\* C2 as claimed: in the assembled document, whatever the number of TOC pages,
\* the page number in the destination of a rewritten link equals the position
\* of the page that the TOC annotation of the fragment registered under the
\* link's URL targets.
C2_LinkLandsOnTocTarget ==
    Assembled =>
        \A p \in 1..Len(pdf_writer) :
            pdf_writer[p].kind = "body" =>
                \A i \in 1..Len(body_annots.items) :
                    IsMappedLink(url_to_page, body_annots.items[i]) =>
                        LET uri == body_annots.items[i]["/A"]["/URI"]
                            j == RegisteredFragment(uri)
                        IN pdf_writer[p].annots.items[i]["/A"]["/D"][1]
                              = FinalPosition(TocAnnotsOfDoc[j].dest.id)

\* C3 as claimed: when exactly one TOC page is generated it is page 1 of the
\* document, and for every fragment j the page at position
\* title_list[j].page + 1 is the first page of fragment j, and that position
\* is url_to_page[url].
C3_OneTocPageShiftsByOne ==
    (Assembled /\ Len(toc_pages) = 1) =>
        /\ pdf_writer[1].kind = "toc"
        /\ \A j \in 1..Len(title_list) :
              LET pos == title_list[j].page + 1
              IN /\ pos <= Len(pdf_writer)
                 /\ pdf_writer[pos].kind = "body"
                 /\ pdf_writer[pos].frag = j
                 /\ pdf_writer[pos].idx = 1
                 /\ url_to_page[title_list[j].url] = pos

\* No two pages of the book are rendered to the same file.
OutputsDistinct ==
    \A i, j \in 1..Len(page_list) :
        i # j => OutputPath(page_list[i].title) # OutputPath(page_list[j].title)

\* What is left of C3 for books whose pages sanitise to distinct file names
\* (page counts 2, 1, 3 give pages 1, 3, 4 and positions 2, 4, 5).
PagesLineUpWhenOutputsDistinct == OutputsDistinct => C3_OneTocPageShiftsByOne

\* C4: the j-th TocEntry's page is 1 plus the page counts of the fragments
\* rendered before it, and the counter stands one past all pages rendered.
C4_EntryPageIsRunningCount ==
    /\ Len(rendered) = Len(title_list)
    /\ \A j \in 1..Len(title_list) :
          title_list[j].page = 1 + SumSeq(SubSeq(rendered, 1, j - 1))
    /\ page_num = 1 + SumSeq(rendered)

\* C4 witness: page counts 2, 1, 3 were rendered and the entries start on
\* pages 1, 3, 4.
C4_Witness ==
    /\ rendered = <<2, 1, 3>>
    /\ [j \in 1..Len(title_list) |-> title_list[j].page] = <<1, 3, 4>>
    /\ page_num = 7

\* C5: the URL of the fragment registered last maps to its TocEntry.page + 1,
\* and the keys of url_to_page are the URLs of the fragments registered so
\* far: all URLs of page_list once every fragment is registered.
C5_UrlMapsPastFirstPage ==
    /\ Len(title_list) > 0 =>
          url_to_page[title_list[Len(title_list)].url]
             = title_list[Len(title_list)].page + 1
    /\ DOMAIN url_to_page = {page_list[i].title : i \in 1..Len(title_list)}
    /\ pc # "render" =>
          \A i \in 1..Len(page_list) : page_list[i].title \in DOMAIN url_to_page

\* C5 witness: a second fragment, starting after page 1, has just been
\* registered under a URL of its own.
C5_Witness ==
    /\ pc = "render"
    /\ Len(title_list) = 2
    /\ title_list[2].page > 2
    /\ title_list[1].url # title_list[2].url
    /\ url_to_page[title_list[2].url] = title_list[2].page + 1
    /\ url_to_page[title_list[1].url] = 2

\* create_pdf has returned self.output_file to its caller (pc = "done" is
\* reached only through the return of concat_pages, rmtree and that return).
CreatePdfReturnedPath == pc = "done"

\* C13 as claimed: when pdf_writer.save raises OSError the run fails, so
\* create_pdf returns the output path only when the file was written.
C13_SaveFailureIsFatal == CreatePdfReturnedPath => saved = "written"

\* The pages page.pdf() produced, fragment by fragment and in each fragment's
\* own order: <<j, i>> is the i-th page of the j-th fragment.
FragmentPagesInOrder ==
    Flatten([j \in 1..Len(rendered) |-> [i \in 1..rendered[j] |-> <<j, i>>]])

\* The body pages of the document, as <<fragment, page of the fragment>>.
BodyOfDoc(doc, K) ==
    [i \in 1..(Len(doc) - K) |-> <<doc[K + i].frag, doc[K + i].idx>>]

\* C14 as claimed: after concat_pages with K TOC pages, pages 1..K of the
\* document are the TOC pages in generation order and pages K+1.. are all
\* fragments' pages in fragment order, each fragment's page order preserved.
C14_TocThenBodyInOrder ==
    Assembled =>
        LET K == Len(toc_pages)
        IN /\ Len(pdf_writer) >= K
           /\ \A k \in 1..K :
                 /\ pdf_writer[k].kind = "toc"
                 /\ pdf_writer[k].start_idx = toc_pages[k].start_idx
                 /\ pdf_writer[k].entries = toc_pages[k].entries
           /\ \A p \in (K + 1)..Len(pdf_writer) : pdf_writer[p].kind = "body"
           /\ BodyOfDoc(pdf_writer, K) = FragmentPagesInOrder

\* What is left of C14 for books whose pages sanitise to distinct file names.
TocThenBodyWhenOutputsDistinct == OutputsDistinct => C14_TocThenBodyInOrder

\* The insertion of the TOC pages itself keeps the body as add_pages left it.
InsertKeepsBody ==
    [][pc = "insert" =>
          SubSeq(pdf_writer', Len(toc_pages) + 1, Len(pdf_writer')) = pdf_writer]_vars

\* The number a decimal numeral denotes, read digit by digit.
RECURSIVE DecimalValue(_)
DecimalValue(text) ==
    IF text = <<>> THEN 0
    ELSE 10 * DecimalValue(SubSeq(text, 1, Len(text) - 1))
         + (CHOOSE d \in 0..9 : DigitChar(d) = text[Len(text)])

\* The blocks of a kind among the contents of a page.
BlocksOf(page, kind) ==
    SelectSeq(page.contents, LAMBDA b : b.kind = kind)

\* The number of TOC pages at the front of the document under assembly.
TocPagesInFront == Len(TocPagesOfDoc)

\* C15: the i-th body page of the document, counted from 1 without the TOC
\* pages, carries exactly one header, the collection title, and exactly one
\* footer, "Page i", both in the font /F2 the page has as a resource; this
\* holds while the body is assembled and after any number of TOC pages went in
\* front of it.
C15_BodyPagesNumbered ==
    \A i \in 1..(Len(pdf_writer) - TocPagesInFront) :
        LET page == pdf_writer[TocPagesInFront + i]
            headers == BlocksOf(page, "header")
            footers == BlocksOf(page, "footer")
        IN /\ page.kind = "body"
           /\ Len(headers) = 1
           /\ headers[1].text = CollectionTitle
           /\ Len(footers) = 1
           /\ Len(footers[1].text) > Len(Str_Page)
           /\ SubSeq(footers[1].text, 1, Len(Str_Page)) = Str_Page
           /\ DecimalValue(SubSeq(footers[1].text, Len(Str_Page) + 1,
                                  Len(footers[1].text))) = i
           /\ headers[1].font = "/F2" /\ footers[1].font = "/F2"
           /\ "/F2" \in DOMAIN page.fonts

\* C15 witness: behind the TOC page, the second fragment starts on the third
\* body page, footed "Page 3", and the third fragment on the fifth.
C15_Witness ==
    /\ Assembled
    /\ TocPagesInFront = 1
    /\ rendered = <<2, 2, 1>>
    /\ BlocksOf(pdf_writer[4], "footer")[1].text = <<"P","a","g","e"," ","3">>
    /\ BlocksOf(pdf_writer[6], "footer")[1].text = <<"P","a","g","e"," ","5">>
    /\ pdf_writer[4].idx = 1

\* C15 witness for a document with two TOC pages: its twelfth body page.
C15_WitnessTwoTocPages ==
    /\ Assembled
    /\ TocPagesInFront = 2
    /\ BlocksOf(pdf_writer[14], "footer")[1].text = <<"P","a","g","e"," ","1","2">>

(***************************************************************************)
(* Properties of the roman numbering (checked under SpecRoman).            *)
(***************************************************************************)
\* The canonical roman numeral, written digit by digit: the numerals of the
\* units, tens and hundreds, after one m per thousand.
RomanUnits ==
    << <<>>, <<"i">>, <<"i","i">>, <<"i","i","i">>, <<"i","v">>, <<"v">>,
       <<"v","i">>, <<"v","i","i">>, <<"v","i","i","i">>, <<"i","x">> >>
RomanTens ==
    << <<>>, <<"x">>, <<"x","x">>, <<"x","x","x">>, <<"x","l">>, <<"l">>,
       <<"l","x">>, <<"l","x","x">>, <<"l","x","x","x">>, <<"x","c">> >>
RomanHundreds ==
    << <<>>, <<"c">>, <<"c","c">>, <<"c","c","c">>, <<"c","d">>, <<"d">>,
       <<"d","c">>, <<"d","c","c">>, <<"d","c","c","c">>, <<"c","m">> >>

CanonicalRoman(n) ==
    [i \in 1..(n \div 1000) |-> "m"]
    \o RomanHundreds[((n \div 100) % 10) + 1]
    \o RomanTens[((n \div 10) % 10) + 1]
    \o RomanUnits[(n % 10) + 1]

\* The value of a roman letter, and the number a numeral is read as: a letter
\* in front of a greater one is subtracted, every other letter is added.
RomanLetterValue(c) ==
    CASE c = "i" -> 1 [] c = "v" -> 5 [] c = "x" -> 10 [] c = "l" -> 50
      [] c = "c" -> 100 [] c = "d" -> 500 [] c = "m" -> 1000

RECURSIVE RomanValue(_)
RomanValue(text) ==
    IF text = <<>> THEN 0
    ELSE IF Len(text) >= 2 /\ RomanLetterValue(text[1]) < RomanLetterValue(text[2])
         THEN RomanValue(Tail(text)) - RomanLetterValue(text[1])
         ELSE RomanValue(Tail(text)) + RomanLetterValue(text[1])

\* C16: the k-th TOC page of the assembled document carries exactly one
\* footer, the canonical lower-case roman numeral of k; and int_to_roman(n) is
\* the canonical numeral of n for every n from 1 on, reads back as n (so two
\* numbers never share a numeral) and consists of the seven lower-case letters.
C16_TocPagesRomanFooted ==
    /\ pc = "save" =>
          /\ TocPagesInFront = Len(toc_pages)
          /\ \A k \in 1..Len(toc_pages) :
                LET footers == BlocksOf(pdf_writer[k], "footer")
                IN /\ pdf_writer[k].kind = "toc"
                   /\ Len(footers) = 1
                   /\ footers[1].text = CanonicalRoman(k)
                   /\ RomanValue(footers[1].text) = k
    /\ (pc = "roman_done" /\ roman_num >= 1) =>
          /\ roman_result = CanonicalRoman(roman_num)
          /\ RomanValue(roman_result) = roman_num
          /\ roman_result # <<>>
          /\ \A i \in 1..Len(roman_result) :
                roman_result[i] \in {"i", "v", "x", "l", "c", "d", "m"}

\* C16 witness: int_to_roman(3999) returned mmmcmxcix.
C16_Witness ==
    /\ pc = "roman_done"
    /\ roman_num = 3999
    /\ roman_result = <<"m","m","m","c","m","x","c","i","x">>

\* C16 witness for the TOC pages: the ninth TOC page is footed ix, the fourth iv.
C16_WitnessNinthTocPage ==
    /\ pc = "save"
    /\ Len(toc_pages) >= 9
    /\ BlocksOf(pdf_writer[9], "footer")[1].text = <<"i","x">>
    /\ BlocksOf(pdf_writer[4], "footer")[1].text = <<"i","v">>

(***************************************************************************)
(* Properties of the order of registration and assembly (checked under     *)
(* Spec).                                                                  *)
(***************************************************************************)
\* Every page of page_list has been rendered and registered.
AllRegistered ==
    /\ Len(title_list) = Len(page_list)
    /\ \A i \in 1..Len(page_list) :
          /\ title_list[i].url = page_list[i].title
          /\ page_list[i].title \in DOMAIN url_to_page

\* C17: assembly and link rewriting start only after every page of page_list
\* has been rendered and registered - the document under assembly is empty
\* until then, and from the start of concat_pages on title_list and
\* url_to_page hold the entries of all fragments - and nothing is added to
\* them afterwards.
C17_AssemblyAfterRegistration ==
    /\ [](pc = "render" => pdf_writer = <<>> /\ toc_pages = <<>>)
    /\ [](pc # "render" => AllRegistered)
    /\ [][pc # "render" =>
            title_list' = title_list /\ url_to_page' = url_to_page]_vars

\* C17 witness: add_pages has run on the first of three files and has
\* rewritten a link against a url_to_page that holds all three pages.
C17_Witness ==
    /\ pc = "concat"
    /\ concat_idx = 1
    /\ Len(page_list) = 3
    /\ Cardinality(DOMAIN url_to_page) = 3
    /\ body_annots.present
    /\ pdf_writer[1].annots.items[1]["/A"]["/S"] = "/GoTo"

C19_UntitledPlaceholder ==
    /\ \A j \in 1..Len(title_list) :
          /\ ExtractTextWithXslt(title_list[j].url) = {} =>
                title_list[j].title = <<"U","n","t","i","t","l","e","d">>
          /\ ExtractTextWithXslt(title_list[j].url) # {} =>
                title_list[j].title \in ExtractTextWithXslt(title_list[j].url)
          /\ title_list[j].title # <<>>
          /\ title_list[j].title # <<"N","o","n","e">>
    /\ pc \in {"render", "concat", "insert", "save", "done", "raised"}

\* C19 witness: a page without heading was registered as Untitled, another
\* page was registered after it, and the document was assembled.
C19_Witness ==
    /\ pc = "done"
    /\ Len(title_list) = 2
    /\ ExtractTextWithXslt(page_list[1].title) = {}
    /\ title_list[1].title = Str_Untitled
    /\ title_list[2].title = UrlAB

(***************************************************************************)
(* Properties of populate_book (checked under SpecBook).                   *)
(***************************************************************************)
\* The line holds a parsable link target: "[[", later "]]", and a "|" between.
HasLinkTarget(line) ==
    LET open == Find(line, <<"[", "[">>)
        close == Find(line, <<"]", "]">>)
    IN /\ open >= 0
       /\ close >= open + 2
       /\ Find(SubSeq(line, open + 3, close), <<"|">>) # -1

\* The link and label such a line holds between its brackets.
LinkTargetOf(line) ==
    LET open == Find(line, <<"[", "[">>)
        close == Find(line, <<"]", "]">>)
        inner == SubSeq(line, open + 3, close)
        bar == Find(inner, <<"|">>)
    IN WikiLink(SubSeq(inner, 1, bar), SubSeq(inner, bar + 2, Len(inner)))

\* The pages of the book, as get_ordered_wiki_pages lists them.
OrderedPages ==
    IF book = {} THEN <<>>
    ELSE GetOrderedWikiPages(CHOOSE b \in book : TRUE, section_objs)

\* C20 as claimed: a line after the first that holds no parsable link target
\* is skipped - it does not abort populate_book with the ValueError of
\* parse_line, and no page is made of it: every page of the book carries the
\* link and label of a line that holds a link target.
C20_MalformedLineSkipped ==
    /\ (pc = "book_raised" /\ raised_exc = "ValueError") => line_idx = 0
    /\ \A i \in 1..Len(OrderedPages) :
          \E k \in 1..Len(lines) :
             /\ HasLinkTarget(lines[k])
             /\ OrderedPages[i].link = LinkTargetOf(lines[k])

\* The two ways C20 fails, each on its own.
MalformedLineNeverAborts ==
    (pc = "book_raised" /\ raised_exc = "ValueError") => line_idx = 0
NoPageFromGarbage ==
    \A i \in 1..Len(OrderedPages) :
        \E k \in 1..Len(lines) :
           HasLinkTarget(lines[k]) /\ OrderedPages[i].link = LinkTargetOf(lines[k])


(***************************************************************************)
(* SpecDecorate: ensure_resources, add_header and add_footer called, in    *)
(* any order and any number of times, on one page.                         *)
(***************************************************************************)
\* The variables of a Collection and of the link rewriter.
collectionVars == <<rev, page_list, title_list, output_list, url_to_page,
                    page_num, files, rendered, body_annots, pdf_writer,
                    page_offset, concat_idx, toc_pages, next_idx, saved>>
linkVars == <<link_url_map, link_orig, link_pages, link_passes>>

\* A second content stream of a rendered page.
BodyContentMore == [BodyContent EXCEPT !.ops = <<"q", "Q">>]

\* The pages the decorators are called on: rendered pages with no, one or two
\* content streams, with or without annotations, and with font resources
\* that do or do not already use the name /F2.
DecorContents == { <<>>, <<BodyContent>>, <<BodyContent, BodyContentMore>>,
                   <<BodyContentMore, BodyContent>> }
DecorFonts == { ("/F4" :> "Rendered"),
                ("/F2" :> "Rendered") @@ ("/F4" :> "Rendered"),
                ("/F2" :> "Arial"),
                ("/F1" :> "Helvetica-Bold") }
DecorAnnots == { NoAnnots, Annots(<<LinkAnnot(UrlAB)>>) }
DecorPages ==
    { [BodyPage(1, 1, 1, a) EXCEPT !.contents = c, !.fonts = f] :
        a \in DecorAnnots, c \in DecorContents, f \in DecorFonts }

\* The header texts: the collection title, a title with balanced parentheses
\* and one that closes the string and names operators.
Str_Balanced == <<"a", "(", "b", ")">>
Str_Closing == <<")", "Q", "(">>
DecorHeaders == { CollectionTitle, Str_Balanced, Str_Closing }
DecorFooters == { Str_Page \o IntToStr(1), IntToRoman(2) }

InitDecorate ==
    /\ pc = "decorate"
    /\ dec_orig \in DecorPages
    /\ dec_page = dec_orig
    /\ dec_calls = <<>>
    /\ stream_text = <<>>
    /\ stream_out = <<>>
    /\ roman_num = 0
    /\ roman_result = <<>>
    /\ BookIdle
    /\ CollectionIdle
    /\ LinksIdle

\* Collection.ensure_resources(page)
EnsureResourcesCall ==
    /\ pc = "decorate"
    /\ Len(dec_calls) < MaxDecorCalls
    /\ dec_page' = EnsureResources(dec_page)
    /\ dec_calls' = Append(dec_calls, "ensure_resources")
    /\ UNCHANGED <<pc, dec_orig, stream_text, stream_out, roman_num,
                   roman_result, bookVars, collectionVars, linkVars>>

\* Collection.add_header(header, page)
AddHeaderCall ==
    /\ pc = "decorate"
    /\ Len(dec_calls) < MaxDecorCalls
    /\ \E header \in DecorHeaders : dec_page' = AddHeader(header, dec_page)
    /\ dec_calls' = Append(dec_calls, "add_header")
    /\ UNCHANGED <<pc, dec_orig, stream_text, stream_out, roman_num,
                   roman_result, bookVars, collectionVars, linkVars>>

\* Collection.add_footer(footer, page)
AddFooterCall ==
    /\ pc = "decorate"
    /\ Len(dec_calls) < MaxDecorCalls
    /\ \E footer \in DecorFooters : dec_page' = AddFooter(footer, dec_page)
    /\ dec_calls' = Append(dec_calls, "add_footer")
    /\ UNCHANGED <<pc, dec_orig, stream_text, stream_out, roman_num,
                   roman_result, bookVars, collectionVars, linkVars>>

NextDecorate == EnsureResourcesCall \/ AddHeaderCall \/ AddFooterCall

SpecDecorate == InitDecorate /\ [][NextDecorate]_vars

(***************************************************************************)
(* ensure_resources is idempotent (SpecDecorate).                          *)
(***************************************************************************)
\* How many times has the function been called on the page?
CallsOf(name) == Cardinality({i \in 1..Len(dec_calls) : dec_calls[i] = name})

LineKind(line) ==
    LET l == Strip(line)
    IN IF StartsWith(l, PrefixChapter) THEN "chapter"
       ELSE IF StartsWith(l, PrefixSection) THEN "section"
       ELSE IF StartsWith(l, PrefixWikiPage) THEN "page"
       ELSE "none"

\* The page a line stands for: none, or the one page of a prefixed line that
\* holds a link target.
PageOfLine(line) ==
    IF LineKind(line) # "none" /\ HasLinkTarget(line)
    THEN <<WikiPage(LinkTargetOf(line), IF LineKind(line) = "chapter" THEN 1 ELSE 2)>>
    ELSE <<>>

\* The pages of lines a..b of the text, in the order of the lines.
PagesOfLines(a, b) ==
    Flatten([i \in 1..(b - a + 1) |-> PageOfLine(lines[a + i - 1])])

\* The pages of the whole text in the order of its lines, the front-matter
\* page of the first line first.
ExpectedPages ==
    <<WikiPage(LinkTargetOf(lines[1]), 1)>> \o PagesOfLines(2, Len(lines))

\* Every line after the first is blank or a prefixed line with a whole link.
LaterLinesWhole ==
    \A k \in 2..Len(lines) : lines[k] = <<>> \/ lines[k] \in WholeLines

\* Is a a subsequence of b: are the elements of a found in b in a's order?
RECURSIVE IsSubsequence(_, _)
IsSubsequence(a, b) ==
    IF a = <<>> THEN TRUE
    ELSE IF b = <<>> THEN FALSE
    ELSE IF Head(a) = Head(b) THEN IsSubsequence(Tail(a), Tail(b))
    ELSE IsSubsequence(a, Tail(b))

\* C22 as claimed: for a text whose lines all hold whole links, the pages
\* get_ordered_wiki_pages lists of the book populate_book returned stand in
\* the order of their lines: the list is the list of the lines' pages with,
\* at most, some pages left out.
C22_PagesInLineOrder ==
    (pc = "book_done" /\ LaterLinesWhole) =>
        IsSubsequence(OrderedPages, ExpectedPages)

\* The chapter lines of the text, and the lines that belong to the n-th one.
ChapterLines == {k \in 2..Len(lines) : LineKind(lines[k]) = "chapter"}
NthChapterLine(n) ==
    CHOOSE k \in ChapterLines : Cardinality({j \in ChapterLines : j <= k}) = n
LastLineOfChapter(n) ==
    IF n = Cardinality(ChapterLines) THEN Len(lines)
    ELSE NthChapterLine(n + 1) - 1

\* The pages held by the c-th chapter of the book and by its sections.
PagesOfChapter(b, c) ==
    b.chapters[c].wiki_pages
    \o Flatten([k \in 1..Len(b.chapters[c].sections) |->
          section_objs[b.chapters[c].sections[k]].wiki_pages])

\* C30 as claimed: for a text whose lines all hold whole links, the pages
\* listed are exactly the front-matter page and one page per prefixed line,
\* each chapter of the book holds exactly the pages of the lines from its
\* chapter line to the next chapter line, and a section line that comes
\* before any chapter line ends populate_book with NoChapterForSectionError.
C30_NothingLostOrDuplicated ==
    /\ (pc = "book_done" /\ LaterLinesWhole) =>
          /\ OrderedPages = ExpectedPages
          /\ \A b \in book :
                /\ Len(b.chapters) = Cardinality(ChapterLines)
                /\ \A n \in 1..Len(b.chapters) :
                      PagesOfChapter(b, n)
                        = PagesOfLines(NthChapterLine(n), LastLineOfChapter(n))
    /\ \A k \in 2..(line_idx + 1) :
          ( /\ pc \in {"book_loop", "book_done", "book_raised"}
            /\ LineKind(lines[k]) = "section"
            /\ HasLinkTarget(lines[k])
            /\ \A j \in 2..(k - 1) : LineKind(lines[j]) # "chapter" )
          => (pc = "book_raised" /\ raised_exc = "NoChapterForSectionError")

\* The parts of C30, each on its own.
NoPageLost ==
    (pc = "book_done" /\ LaterLinesWhole) =>
        Len(OrderedPages) = Len(ExpectedPages)
SectionBeforeChapterRaises ==
    \A k \in 2..(line_idx + 1) :
        ( /\ pc \in {"book_loop", "book_done", "book_raised"}
          /\ LineKind(lines[k]) = "section"
          /\ HasLinkTarget(lines[k])
          /\ \A j \in 2..(k - 1) : LineKind(lines[j]) # "chapter" )
        => (pc = "book_raised" /\ raised_exc = "NoChapterForSectionError")
SubPagesFollowTheirChapter ==
    (pc = "book_done" /\ LaterLinesWhole
       /\ \A k \in 2..Len(lines) :
             LineKind(lines[k]) = "page" =>
                \E j \in 2..(k - 1) : LineKind(lines[j]) = "chapter") =>
        OrderedPages = ExpectedPages


(***************************************************************************)
(* The destinations of the TOC annotations (Spec).                         *)
(***************************************************************************)
\* The body is assembled and generate_toc_pdf is about to be called.
BodyAssembled == pc = "concat" /\ concat_idx = Len(output_list)

\* In the assembled document the annotation of every entry is a GoTo to the
\* page that stood at body position entry.page, now behind the TOC pages,
\* and that page is the first page of the entry's fragment.
TocAnnotsTargetEntryPages ==
    Assembled =>
        /\ Len(TocAnnotsOfDoc) = Len(title_list)
        /\ \A j \in 1..Len(title_list) :
              LET annot == TocAnnotsOfDoc[j]
                  pos == Len(toc_pages) + title_list[j].page
              IN /\ annot.subtype = "/Link"
                 /\ annot.action = "/GoTo"
                 /\ annot.dest.kind = "ref"
                 /\ pos <= Len(pdf_writer)
                 /\ pdf_writer[pos].kind = "body"
                 /\ pdf_writer[pos].id = annot.dest.id
                 /\ pdf_writer[pos].id = title_list[j].page
                 /\ pdf_writer[pos].frag = j
                 /\ pdf_writer[pos].idx = 1

\* Every registered entry names a page of the assembled body.
EntryPagesInBody ==
    BodyAssembled =>
        \A j \in 1..Len(title_list) :
            1 <= title_list[j].page /\ title_list[j].page <= Len(pdf_writer)

\* C23 as claimed: every entry produced by registration names a page of the
\* body, so generate_toc_pdf never fails on an index, and each TOC annotation
\* is a GoTo whose destination is the page at body position entry.page, the
\* first page of the entry's fragment, also after the TOC pages have been
\* put in front of it.
C23_TocAnnotTargetsEntryPage ==
    /\ EntryPagesInBody
    /\ pc # "raised"
    /\ TocAnnotsTargetEntryPages

\* The same for the books none of whose pages share an output file.
TocAnnotsTargetWhenOutputsDistinct ==
    OutputsDistinct => C23_TocAnnotTargetsEntryPage


(***************************************************************************)
(* Title block and continuation header of the TOC pages (SpecToc).         *)
(***************************************************************************)
\* C24 as claimed: of the TOC pages generated, exactly the first, the one
\* with start_idx = 0, carries the large title block and no continuation
\* header, and every later one carries the continuation header
\* "Table of Contents" and no title block.
C24_TitleBlockOnFirstPageOnly ==
    \A k \in 1..Len(toc_pages) :
        /\ (toc_pages[k].start_idx = 0) <=> (k = 1)
        /\ toc_pages[k].title_block <=> (k = 1)
        /\ toc_pages[k].cont_header <=> (k > 1)

\* The same for the paginator of downloadbook_pdf_handler/toc.py alone.
TitleBlockOnFirstPageOnlyNew == rev = "new" => C24_TitleBlockOnFirstPageOnly

\* The paginator of src/toc.py: the header on every page, no title block.
HeaderOnEveryPageOld ==
    rev = "old" =>
        \A k \in 1..Len(toc_pages) :
            toc_pages[k].cont_header /\ ~toc_pages[k].title_block


(***************************************************************************)
(* The bytes of a text block.  Common.header, Common.footer and            *)
(* PdfTocEntry.get_content format the same seven lines; the operands that  *)
(* are numbers or names are left out, the text stands between "(" and ")"  *)
(* character by character as the f-string puts it there.                   *)
(***************************************************************************)
StreamOf(block) ==
    IF block.ops = TextBlockOps
    THEN <<"q", "BT", "Tf", "Tm", "(">> \o block.text \o <<")", "Tj", "ET", "Q">>
    ELSE block.ops

\* str.replace(old, new) for a one-character old
Replace(str, old, new) ==
    Flatten([i \in 1..Len(str) |-> IF str[i] = old THEN new ELSE <<str[i]>>])

\* PdfTocEntry.escape_pdf_text
EscapePdfText(value) ==
    Replace(Replace(Replace(value, "\\", <<"\\", "\\">>),
                    "(", <<"\\", "(">>),
            ")", <<"\\", ")">>)

\* PdfTocEntry.get_content: the line "(<escaped title> - <page>) Tj"
Str_Dash == <<" ", "-", " ">>
GetContent(r, entry, offset) ==
    [kind |-> "toc_entry", ops |-> TextBlockOps, font |-> "/F1",
     size |-> TOC_FONT_SIZE, y |-> offset,
     text |-> EscapePdfText(entry.title) \o Str_Dash \o IntToStr(entry.page)]

(***************************************************************************)
(* How a PDF reader takes a content stream apart: a literal string runs    *)
(* from "(" to the matching ")", parentheses inside it nest, and a         *)
(* backslash takes the next character literally.  What is outside a        *)
(* string is an operator.                                                  *)
(***************************************************************************)
RECURSIVE ReadStream(_, _, _, _, _)
ReadStream(s, i, depth, cur, acc) ==
    IF i > Len(s)
    THEN IF depth > 0 THEN [acc EXCEPT !.ops = Append(@, "unterminated string")]
         ELSE acc
    ELSE IF depth = 0
    THEN IF s[i] = "(" THEN ReadStream(s, i + 1, 1, <<>>, acc)
         ELSE IF s[i] = ")"
         THEN ReadStream(s, i + 1, 0, cur,
                         [acc EXCEPT !.ops = Append(@, "stray )")])
         ELSE ReadStream(s, i + 1, 0, cur, [acc EXCEPT !.ops = Append(@, s[i])])
    ELSE IF s[i] = "\\"
    THEN IF i + 1 <= Len(s)
         THEN ReadStream(s, i + 2, depth, Append(cur, s[i + 1]), acc)
         ELSE ReadStream(s, i + 1, depth, cur, acc)
    ELSE IF s[i] = "("
    THEN ReadStream(s, i + 1, depth + 1, Append(cur, "("), acc)
    ELSE IF s[i] = ")"
    THEN IF depth = 1
         THEN ReadStream(s, i + 1, 0, <<>>,
                         [ops |-> Append(acc.ops, "string"),
                          strings |-> Append(acc.strings, cur)])
         ELSE ReadStream(s, i + 1, depth - 1, Append(cur, ")"), acc)
    ELSE ReadStream(s, i + 1, depth, Append(cur, s[i]), acc)

\* The operators of a stream, a string operand shown as "string", and the
\* string operands themselves.
Read(stream) == ReadStream(stream, 1, 0, <<>>, [ops |-> <<>>, strings |-> <<>>])

\* The operators of a text block that draws one string.
TextBlockRead == <<"q", "BT", "Tf", "Tm", "string", "Tj", "ET", "Q">>

\* How many graphics states are saved after the first n operators.
SaveDepth(ops, n) ==
    Cardinality({k \in 1..n : ops[k] = "q"}) - Cardinality({k \in 1..n : ops[k] = "Q"})

\* Opened by q, closed by Q, and no Q before the last restores a state the
\* block did not save.
SaveRestoreBalanced(ops) ==
    /\ Len(ops) >= 2
    /\ ops[1] = "q"
    /\ ops[Len(ops)] = "Q"
    /\ SaveDepth(ops, Len(ops)) = 0
    /\ \A n \in 1..(Len(ops) - 1) : SaveDepth(ops, n) >= 1

(***************************************************************************)
(* add_header and add_footer against the page they are given               *)
(* (SpecDecorate).                                                         *)
(***************************************************************************)
\* The decorations prepended so far.
Decorations == CallsOf("add_header") + CallsOf("add_footer")

\* Each call put one stream in front; the streams the page came with follow,
\* unchanged and in their order; the annotations are those the page came with.
PageContentKept ==
    pc = "decorate" =>
        /\ Len(dec_page.contents) = Len(dec_orig.contents) + Decorations
        /\ SubSeq(dec_page.contents, Decorations + 1, Len(dec_page.contents))
              = dec_orig.contents
        /\ \A k \in 1..Decorations :
              dec_page.contents[k].kind \in {"header", "footer"}
        /\ dec_page.annots = dec_orig.annots

\* Each stream put in front is one block opened by q and closed by Q.
DecorationsSelfContained ==
    pc = "decorate" =>
        \A k \in 1..Decorations :
            SaveRestoreBalanced(Read(StreamOf(dec_page.contents[k])).ops)

\* C25 as claimed: add_header and add_footer only prepend one self-contained
\* block each, opened by q, closed by Q and balanced in between; the content
\* streams the page had follow the decorations unchanged and in their order,
\* and the annotations are untouched.
C25_DecorationPrependsOneBlock == PageContentKept /\ DecorationsSelfContained

\* The blocks are self-contained when no header holds a parenthesis or a
\* backslash.
SelfContainedForPlainHeaders ==
    (\A k \in 1..Decorations :
        \A i \in 1..Len(dec_page.contents[k].text) :
            dec_page.contents[k].text[i] \notin {"(", ")", "\\"})
    => DecorationsSelfContained

(***************************************************************************)
(* SpecStream: Common.header, Common.footer and get_content called on a    *)
(* text.                                                                   *)
(***************************************************************************)
StreamAlphabet == {"a", "(", ")", "\\"}
StreamTexts == UNION {[1..n -> StreamAlphabet] : n \in 0..MaxTextLen}
StreamPages == {1, 12}

InitStream ==
    /\ pc = "stream"
    /\ stream_text \in StreamTexts
    /\ stream_out = <<>>
    /\ dec_page = <<>>
    /\ dec_orig = <<>>
    /\ dec_calls = <<>>
    /\ roman_num = 0
    /\ roman_result = <<>>
    /\ BookIdle
    /\ CollectionIdle
    /\ LinksIdle

\* Common.header(text)
HeaderCall ==
    /\ pc = "stream"
    /\ stream_out' = StreamOf(Header(stream_text, HF_FONT_SIZE, "/F2"))
    /\ pc' = "header_done"
    /\ UNCHANGED <<stream_text, dec_page, dec_orig, dec_calls, roman_num,
                   roman_result, bookVars, collectionVars, linkVars>>

\* Common.footer(text)
FooterCall ==
    /\ pc = "stream"
    /\ stream_out' = StreamOf(Footer(stream_text, HF_FONT_SIZE, "/F2"))
    /\ pc' = "footer_done"
    /\ UNCHANGED <<stream_text, dec_page, dec_orig, dec_calls, roman_num,
                   roman_result, bookVars, collectionVars, linkVars>>

\* PdfTocEntry.get_content(entry) of either revision, entry.title the text
GetContentCall ==
    /\ pc = "stream"
    /\ \E r \in Revisions, page \in StreamPages :
         stream_out' = StreamOf(GetContent(r, TocEntry(UrlC, stream_text, page, 1),
                                           PAGE_HEIGHT - MARGIN))
    /\ pc' = "toc_entry_done"
    /\ UNCHANGED <<stream_text, dec_page, dec_orig, dec_calls, roman_num,
                   roman_result, bookVars, collectionVars, linkVars>>

NextStream == HeaderCall \/ FooterCall \/ GetContentCall

SpecStream == InitStream /\ [][NextStream]_vars

(***************************************************************************)
(* The string operands written (SpecStream).                               *)
(***************************************************************************)
\* The stream is one text block whose string operand reads back as text.
DrawsExactly(stream, text) ==
    /\ Read(stream).ops = TextBlockRead
    /\ Read(stream).strings = <<text>>

\* The line of a TOC entry draws "<title> - <page>" whatever the title.
TocEntryLineWellFormed ==
    pc = "toc_entry_done" =>
        \E page \in StreamPages :
            DrawsExactly(stream_out, stream_text \o Str_Dash \o IntToStr(page))

\* A header draws its text whatever the text.
HeaderWellFormed ==
    pc = "header_done" => DrawsExactly(stream_out, stream_text)

\* A footer draws its text whatever the text.
FooterWellFormed ==
    pc = "footer_done" => DrawsExactly(stream_out, stream_text)

\* C29 as claimed: whatever the text, the string operand written into a
\* content stream for a TOC entry line, a header or a footer is well formed:
\* the stream reads as one text block and its string reads back as the text.
C29_StringOperandsWellFormed ==
    /\ TocEntryLineWellFormed
    /\ HeaderWellFormed
    /\ FooterWellFormed


(***************************************************************************)
(* The registry during assembly (Spec).                                    *)
(***************************************************************************)
\* C26: concat_pages and what it calls only read the registry.  From the
\* call of concat_pages on, no step changes title_list, url_to_page,
\* output_list or page_num; and no step at all, registration included,
\* changes a TocEntry that is already in title_list.
C26_AssemblyReadsRegistryOnly ==
    /\ [][(pc # "render" \/ pc' # "render") =>
            UNCHANGED <<title_list, url_to_page, output_list, page_num>>]_vars
    /\ [][\A j \in 1..Len(title_list) :
            Len(title_list') >= j /\ title_list'[j] = title_list[j]]_vars

\* C26 witness: a document of three fragments is assembled, TOC in front and
\* a link rewritten, and the registry still holds what registration left.
C26_Witness ==
    /\ pc = "done"
    /\ Len(title_list) = 3
    /\ Len(output_list) = 3
    /\ page_num = 1 + SumSeq(rendered)
    /\ pdf_writer[1].kind = "toc"
    /\ body_annots.present
    /\ \E p \in 1..Len(pdf_writer) :
          /\ pdf_writer[p].kind = "body"
          /\ pdf_writer[p].annots.items[1]["/A"]["/S"] = "/GoTo"


(***************************************************************************)
(* The page counter of registration and the one of assembly (Spec).        *)
(***************************************************************************)
\* C27 as claimed: for every page_list, the start_page concat_pages passes
\* to add_pages for fragment j is title_list[j].page, and once the last file
\* is consumed page_offset equals page_num.
C27_CountersAgree ==
    /\ (pc = "concat" /\ concat_idx < Len(output_list)) =>
          page_offset = title_list[concat_idx + 1].page
    /\ (BodyAssembled \/ pc \in {"insert", "save", "done", "raised"}) =>
          page_offset = page_num

\* The same for the books none of whose pages share an output file.
CountersAgreeWhenOutputsDistinct == OutputsDistinct => C27_CountersAgree


(***************************************************************************)
(* A second rewrite pass (SpecLinks).                                      *)
(***************************************************************************)
\* C28: replace_links_in_page is idempotent.  A page a pass has run on,
\* once or twice, is the page one pass makes of the original, a further
\* pass would leave it as it is, and none of its Link actions carries a
\* URI that is a key of url_to_page.
C28_RewriteIdempotent ==
    \A p \in RewrittenPages :
        /\ link_pages[p] = ReplaceLinksInPage(link_url_map, link_orig[p])
        /\ ReplaceLinksInPage(link_url_map, link_pages[p]) = link_pages[p]
        /\ \A i \in AnnotPositions(p) :
              ~IsMappedLink(link_url_map, CurAnnot(p, i))

\* C28 witness: two passes have run on a page that came with a link to a
\* registered URL, now a GoTo.
C28_Witness ==
    \E p \in 1..Len(link_pages) :
        /\ link_passes[p] = 2
        /\ \E i \in AnnotPositions(p) :
              /\ IsMappedLink(link_url_map, OrigAnnot(p, i))
              /\ CurAnnot(p, i)["/A"]["/S"] = "/GoTo"

=============================================================================
